---- MODULE Spec2Model ----
(***************************************************************************)
(* The Acquire game server: the game engine (src/src/models/game.js with   *)
(* Board, Player, TileManager, GameStateManager, StockMarket) behind the   *)
(* game router (createGameRouter).  One action per HTTP request handler.   *)
(* The board, the hand size, the size thresholds, the starting money and   *)
(* the share count are scaled down; the prices are the program's.          *)
(***************************************************************************)
EXTENDS Integers, Sequences, FiniteSets, TLC

VARIABLES
    state,          \* GameStateManager.#currentState
    acquirerInfo,   \* GameStateManager.#stateInfo.acquirer ("" when absent)
    players,        \* Game.#players: the usernames in playing order
    turnCount,      \* Game.#turnCount
    balance,        \* Player.#balance, per username
    stocks,         \* Player.#stocks, per username and corporation
    tiles,          \* Player.#tiles, per username: the hand
    isTakingTurn,   \* Player.#isTakingTurn, per username
    placedTiles,    \* Board.#placedTiles
    connectedTiles, \* Game.#connectedTiles: the positions of the connected tiles
    stack,          \* TileManager.#tiles
    corporations,   \* Game.#corporations
    merger,         \* Game.#merger
    result,         \* Game.#result.players (<<>> before the end of the game)
    lastRequest,    \* the last request handled and how it was answered
    requests,       \* number of requests handled so far
    voiceConnected, \* the sockets connected to the /voice namespace
    voiceRooms,     \* VoiceHandler.rooms: room id -> set of socket ids
    voiceUsers,     \* VoiceHandler.users: socket id -> room id ("" when absent)
    voiceManager,   \* SocketManager.voiceRooms and the lobbyId, inVoice of its clients
    voiceRelay,     \* the signalling message the last handler relayed
    marketCall,     \* the last direct call of a StockMarket method and its result
    lobbies,        \* LobbyManager.#lobbies: lobby id -> Lobby
    games,          \* LobbyManager.#games and #gameMetadata, per lobby id
    now,            \* Date.now()
    lobbyReply,     \* the last lobby or lifecycle request and its answer
    gameUpdates,    \* the rooms the last handler emitted gameUpdate to
    fanout,         \* the /game namespace: requests in flight, room, events
    statusRead      \* the last status read and what it left in the turn manager

vars == <<state, acquirerInfo, players, turnCount, balance, stocks, tiles,
          isTakingTurn, placedTiles, connectedTiles, stack, corporations,
          merger, result, lastRequest, requests,
          voiceConnected, voiceRooms, voiceUsers, voiceManager, voiceRelay, marketCall,
          lobbies, games, now, lobbyReply, gameUpdates, fanout, statusRead>>

voiceVars == <<voiceConnected, voiceRooms, voiceUsers, voiceManager, voiceRelay>>

(* What the game routes leave alone. *)
lobbyVars == <<lobbies, games, now, lobbyReply>>

otherVars == <<voiceVars, marketCall, lobbyVars, fanout, statusRead>>

---------------------------------------------------------------------------
(* Bounds of the model.  The program plays on a 9 x 12 board with hands of *)
(* six tiles, a safe size of 11, a game-end size of 41, 6000 of starting   *)
(* money and 25 shares per corporation (game-config.js:2-9); the model     *)
(* scales these down so that each limit is met within a few requests.      *)

BoardRows == 2
BoardCols == 3
TilesPerPlayer == 1
SafeSize == 2
GameEndSize == 3
MaxRequests == 3
MaxMergerRequests == 5
MaxBatch == 2
MaxDeal == 2

InitialBalance == 700
InitialStocks == 3

Usernames == <<"p1", "p2">>
Users == {Usernames[i] : i \in DOMAIN Usernames}

Corps == {"phoenix", "quantum"}
CorpOrder == <<"phoenix", "quantum">>

Incorporated == "incorporated"

GAME_STATES == {"setup", "place-tile", "tile-placed", "establish-corporation",
                "buy-stocks", "game-end", "merge", "merge-conflict",
                "acquirer-selection", "defunct-selection"}

STATE_TRANSITIONS ==
    [s \in GAME_STATES |->
        CASE s = "setup" -> {"place-tile"}
          [] s = "place-tile" -> {"tile-placed", "establish-corporation", "buy-stocks",
                                  "merge", "merge-conflict", "acquirer-selection"}
          [] s = "tile-placed" -> {"place-tile", "game-end"}
          [] s = "establish-corporation" -> {"buy-stocks"}
          [] s = "buy-stocks" -> {"tile-placed"}
          [] s = "merge" -> {"buy-stocks", "merge", "acquirer-selection", "defunct-selection"}
          [] s = "merge-conflict" -> {"merge"}
          [] s = "acquirer-selection" -> {"merge", "defunct-selection"}
          [] s = "defunct-selection" -> {"merge"}
          [] OTHER -> {}]

isMerging(s) == s \in {"merge", "merge-conflict", "acquirer-selection", "defunct-selection"}

---------------------------------------------------------------------------
(* Generic helpers. *)

Range(s) == {s[i] : i \in DOMAIN s}

RECURSIVE SumOver(_, _)
SumOver(S, f) ==
    IF S = {} THEN 0
    ELSE LET x == CHOOSE y \in S : TRUE IN f[x] + SumOver(S \ {x}, f)

Max(S) == CHOOSE x \in S : \A y \in S : y <= x

---------------------------------------------------------------------------
(* Tiles and the tile stack. *)

Positions == {<<x, y>> : x \in 0 .. (BoardRows - 1), y \in 0 .. (BoardCols - 1)}

Tile(p) == [position |-> p, isPlaced |-> FALSE, exchange |-> FALSE]

(* What Array.prototype.shift returns on an empty stack. *)
Undefined == [position |-> <<0 - 1, 0 - 1>>, isPlaced |-> FALSE, exchange |-> FALSE]

createTiles ==
    [i \in 1 .. (BoardRows * BoardCols) |->
        Tile(<<(i - 1) \div BoardCols, (i - 1) % BoardCols>>)]

(* The injected shuffle functions the model draws from. *)
Shuffles == {"identity", "reverse"}

shuffle(fn, ts) ==
    IF fn = "identity" THEN ts
    ELSE [i \in DOMAIN ts |-> ts[Len(ts) + 1 - i]]

pickTile(st) == IF st = <<>> THEN Undefined ELSE Head(st)
afterPick(st) == IF st = <<>> THEN <<>> ELSE Tail(st)

pickTiles(st, count) == SubSeq(st, 1, IF count < Len(st) THEN count ELSE Len(st))
afterPicks(st, count) == SubSeq(st, (IF count < Len(st) THEN count ELSE Len(st)) + 1, Len(st))

---------------------------------------------------------------------------
(* Board. *)

(* Board.#placedTiles is kept per position: the owners (belongsTo) of the  *)
(* tiles pushed at that position, oldest first.  getTileAt finds the       *)
(* oldest tile of a position, so that tile is the one every reader sees.   *)

emptyBoard == [p \in Positions |-> <<>>]

boardPlaceTile(board, position, belongsTo) ==
    [board EXCEPT ![position] = Append(@, belongsTo)]

isOccupied(board, p) == p \in Positions /\ board[p] # <<>>

(* belongsTo of the tile getTileAt returns. *)
ownerAt(board, p) == Head(board[p])

Neighbours(p) == {<<p[1] + 1, p[2]>>, <<p[1] - 1, p[2]>>, <<p[1], p[2] + 1>>, <<p[1], p[2] - 1>>}

RECURSIVE floodFill(_, _)
floodFill(occupied, visited) ==
    LET next == {q \in occupied \ visited : \E p \in visited : q \in Neighbours(p)}
    IN IF next = {} THEN visited ELSE floodFill(occupied, visited \cup next)

(* The positions of the connected tiles. *)
findConnectedTiles(board, position) ==
    IF ~isOccupied(board, position) THEN {}
    ELSE floodFill({p \in Positions : isOccupied(board, p)}, {position})

getAdjacentTiles(board, position) ==
    {q \in Neighbours(position) : isOccupied(board, q)}

(* The keys of groupBy(tiles, "belongsTo"). *)
groupKeys(board, ps) == {ownerAt(board, p) : p \in ps}

assignTilesToCorporation(board, ps, name) ==
    [p \in Positions |-> IF p \in ps THEN [board[p] EXCEPT ![1] = name] ELSE board[p]]

placedCount(board) == SumOver(Positions, [p \in Positions |-> Len(board[p])])

---------------------------------------------------------------------------
(* The game as one value, so that the handlers compose as the methods do. *)

Game ==
    [state |-> state, acquirerInfo |-> acquirerInfo, players |-> players,
     turnCount |-> turnCount, balance |-> balance, stocks |-> stocks,
     tiles |-> tiles, isTakingTurn |-> isTakingTurn, placedTiles |-> placedTiles,
     connectedTiles |-> connectedTiles, stack |-> stack,
     corporations |-> corporations, merger |-> merger, result |-> result]

forceTransition(g, newState, acquirer) ==
    [g EXCEPT !.state = newState, !.acquirerInfo = acquirer]

---------------------------------------------------------------------------
(* Corporation.  The class itself (models/corporation.js) is not among the *)
(* sources; its price table and tiers are (game-config.js).                *)

CORPORATION_TIERS ==
    [c \in {"phoenix", "quantum", "hydra", "fusion", "america", "sackson", "zeta"} |->
        CASE c \in {"zeta", "sackson"} -> 100
          [] c \in {"fusion", "hydra", "america"} -> 200
          [] OTHER -> 300]

PRICE_RANGES(size) ==
    IF size >= 41 THEN 900
    ELSE IF size >= 31 THEN 800
    ELSE IF size >= 21 THEN 700
    ELSE IF size >= 11 THEN 600
    ELSE IF size >= 6 THEN 500
    ELSE IF size >= 5 THEN 400
    ELSE IF size >= 4 THEN 300
    ELSE IF size >= 3 THEN 200
    ELSE IF size >= 2 THEN 100
    ELSE 0

createCorporations ==
    [c \in Corps |-> [isActive |-> FALSE, size |-> 0, stocks |-> InitialStocks, isSafe |-> FALSE]]

corpPrice(g, c) == CORPORATION_TIERS[c] + PRICE_RANGES(g.corporations[c].size)
majorityPrice(g, c) == 10 * corpPrice(g, c)
minorityPrice(g, c) == 5 * corpPrice(g, c)

corpEstablish(g, c) == [g EXCEPT !.corporations[c].isActive = TRUE, !.corporations[c].size = 0]
increaseSize(g, c, n) == [g EXCEPT !.corporations[c].size = @ + n]
markSafe(g, c) == [g EXCEPT !.corporations[c].isSafe = TRUE]
decrementStocks(g, c, n) == [g EXCEPT !.corporations[c].stocks = @ - n]
incrementStocks(g, c, n) == [g EXCEPT !.corporations[c].stocks = @ + n]

---------------------------------------------------------------------------
(* Player. *)

createPlayers ==
    [balance |-> [u \in Users |-> 0],
     stocks |-> [u \in Users |-> [c \in Corps |-> 0]],
     tiles |-> [u \in Users |-> <<>>],
     isTakingTurn |-> [u \in Users |-> FALSE]]

addIncome(g, u, amount) == [g EXCEPT !.balance[u] = @ + amount]
addExpense(g, u, amount) == [g EXCEPT !.balance[u] = @ - amount]
addStocks(g, u, c, quantity) == [g EXCEPT !.stocks[u][c] = @ + quantity]
sellStocks(g, u, c, quantity) == [g EXCEPT !.stocks[u][c] = @ - quantity]
startTurn(g, u) == [g EXCEPT !.isTakingTurn[u] = TRUE]

(* Variant of endTurn that leaves the flag set. *)
endTurnKeepsFlag(g, u) == g

endTurn(g, u) == [g EXCEPT !.isTakingTurn[u] = FALSE]

(* Index of the first hand tile at a position, whatever its flags; 0 if none. *)
handTileAt(hand, position) ==
    IF \E i \in DOMAIN hand : hand[i] # Undefined /\ hand[i].position = position
    THEN CHOOSE i \in DOMAIN hand :
            /\ hand[i] # Undefined /\ hand[i].position = position
            /\ \A j \in DOMAIN hand :
                  (hand[j] # Undefined /\ hand[j].position = position) => i <= j
    ELSE 0

(* Player.placeTile throws when the tile is missing, placed or unplayable. *)
playerPlaceTileThrows(hand, position) ==
    LET i == handTileAt(hand, position)
    IN \/ i = 0
       \/ hand[i].isPlaced
       \/ hand[i].exchange

playerPlaceTile(hand, position) ==
    [hand EXCEPT ![handTileAt(hand, position)].isPlaced = TRUE]

(* Player.refillTile: the new tile takes the slot of the first placed tile. *)
refillTile(hand, newTile) ==
    IF \E i \in DOMAIN hand : hand[i] # Undefined /\ hand[i].isPlaced
    THEN LET k == CHOOSE i \in DOMAIN hand :
                    /\ hand[i] # Undefined /\ hand[i].isPlaced
                    /\ \A j \in DOMAIN hand :
                          (hand[j] # Undefined /\ hand[j].isPlaced) => i <= j
         IN [hand EXCEPT ![k] = newTile]
    ELSE hand

---------------------------------------------------------------------------
(* StockMarket. *)

(* Variant of buyStock without the balance condition. *)
buyStockWithoutFunds(g, u, c) ==
    IF \/ ~g.corporations[c].isActive
       \/ g.corporations[c].stocks < 1
    THEN g
    ELSE addStocks(addExpense(decrementStocks(g, c, 1), u, corpPrice(g, c)), u, c, 1)

(* Variant of buyStock that sells the shares of an inactive corporation. *)
buyStockFromInactive(g, u, c) ==
    IF g.corporations[c].stocks < 1 \/ g.balance[u] < corpPrice(g, c)
    THEN g
    ELSE addStocks(addExpense(decrementStocks(g, c, 1), u, corpPrice(g, c)), u, c, 1)

buyStock(g, u, c) ==
    IF \/ ~g.corporations[c].isActive
       \/ g.corporations[c].stocks < 1
       \/ g.balance[u] < corpPrice(g, c)
    THEN g
    ELSE addStocks(addExpense(decrementStocks(g, c, 1), u, corpPrice(g, c)), u, c, 1)

(* No method of the stock market has been called directly. *)
NoCall == [fn |-> "none", player |-> "", corp |-> "", returned |-> FALSE, seq |-> 0]

(* What buyStock returns: whether the purchase was made. *)
buyStockReturns(g, u, c) ==
    ~(\/ ~g.corporations[c].isActive
      \/ g.corporations[c].stocks < 1
      \/ g.balance[u] < corpPrice(g, c))

RECURSIVE marketBuyStocks(_, _, _)
marketBuyStocks(g, u, purchases) ==
    IF purchases = <<>> THEN g
    ELSE marketBuyStocks(buyStock(g, u, Head(purchases)), u, Tail(purchases))

sellStock(g, u, c, quantity) ==
    IF quantity > g.stocks[u][c] THEN g
    ELSE incrementStocks(
            addIncome(sellStocks(g, u, c, quantity), u, quantity * corpPrice(g, c)),
            c, quantity)

tradeStocks(g, u, defunct, acquirer, defunctQuantity) ==
    LET acquirerQuantity == defunctQuantity \div 2
    IN IF \/ defunctQuantity > g.stocks[u][defunct]
          \/ acquirerQuantity > g.corporations[acquirer].stocks
       THEN g
       ELSE decrementStocks(
                incrementStocks(
                    addStocks(sellStocks(g, u, defunct, defunctQuantity),
                              u, acquirer, acquirerQuantity),
                    defunct, defunctQuantity),
                acquirer, acquirerQuantity)

findShareholderGroups(g, c) ==
    LET stockholders == {u \in Range(g.players) : g.stocks[u][c] > 0}
        counts == {g.stocks[u][c] : u \in stockholders}
    IN IF stockholders = {} THEN [majority |-> {}, minority |-> {}]
       ELSE LET top == Max(counts)
                rest == counts \ {top}
            IN [majority |-> {u \in stockholders : g.stocks[u][c] = top},
                minority |-> IF rest = {} THEN {}
                             ELSE {u \in stockholders : g.stocks[u][c] = Max(rest)}]

(* Variant of bonusOf that rounds the share of a minority holder up. *)
bonusOfRoundedUp(g, c, u) ==
    LET groups == findShareholderGroups(g, c)
        majority == groups.majority
        minority == groups.minority
    IN IF Cardinality(majority) > 1 \/ minority = {}
       THEN IF u \in majority
            THEN (majorityPrice(g, c) + minorityPrice(g, c)) \div Cardinality(majority)
            ELSE 0
       ELSE (IF u \in majority THEN majorityPrice(g, c) ELSE 0)
            + (IF u \in minority
               THEN (minorityPrice(g, c) + Cardinality(minority) - 1) \div Cardinality(minority)
               ELSE 0)

(* The bonus each player receives from distributeBonuses(c). *)
bonusOf(g, c, u) ==
    LET groups == findShareholderGroups(g, c)
        majority == groups.majority
        minority == groups.minority
    IN IF Cardinality(majority) > 1 \/ minority = {}
       THEN IF u \in majority
            THEN (majorityPrice(g, c) + minorityPrice(g, c)) \div Cardinality(majority)
            ELSE 0
       ELSE (IF u \in majority THEN majorityPrice(g, c) ELSE 0)
            + (IF u \in minority THEN minorityPrice(g, c) \div Cardinality(minority) ELSE 0)

distributeBonuses(g, c) ==
    [g EXCEPT !.balance = [u \in DOMAIN g.balance |-> g.balance[u] + bonusOf(g, c, u)]]

liquidateCorporation(g, c) ==
    LET held == SumOver({u \in Range(g.players) : g.stocks[u][c] > 0},
                        [u \in Users |-> g.stocks[u][c]])
    IN [g EXCEPT
          !.balance = [u \in Users |->
                          IF g.stocks[u][c] > 0
                          THEN g.balance[u] + g.stocks[u][c] * corpPrice(g, c)
                          ELSE g.balance[u]],
          !.stocks = [u \in Users |->
                          IF g.stocks[u][c] > 0 THEN [g.stocks[u] EXCEPT ![c] = 0]
                          ELSE g.stocks[u]],
          !.corporations[c].stocks = @ + held]

---------------------------------------------------------------------------
(* Merger.  The class (models/merger.js) is not among the sources; it is   *)
(* modelled from section 4.5 of the specification and from the calls       *)
(* Game makes on it.                                                       *)

NoMerger ==
    [exists |-> FALSE, acquirer |-> "", defunct |-> "", turns |-> 0,
     multipleMerge |-> FALSE, tiles |-> {}, playersCount |-> 0]

newMerger(g, acquirer, defunct, multipleMerge) ==
    [exists |-> TRUE, acquirer |-> acquirer, defunct |-> defunct, turns |-> 0,
     multipleMerge |-> multipleMerge, tiles |-> g.connectedTiles,
     playersCount |-> Len(g.players)]

(* deal: sell `sell` defunct shares, trade `trade` of them two for one. *)
mergerDeal(g, u, sell, trade) ==
    tradeStocks(sellStock(g, u, g.merger.defunct, sell),
                u, g.merger.defunct, g.merger.acquirer, trade)

mergerEndTurn(g) == [g EXCEPT !.merger.turns = @ + 1]

mergerHasEnd(g) == g.merger.turns = g.merger.playersCount

(* end: the defunct's tiles (and, unless further defuncts of the same      *)
(* placement are still to be merged, the connected incorporated tiles) go  *)
(* to the acquirer; the defunct becomes inactive, size 0, 25 shares.       *)
mergerEnd(g) ==
    LET m == g.merger
        assigned == {p \in m.tiles :
                        \/ ownerAt(g.placedTiles, p) = m.defunct
                        \/ (~m.multipleMerge /\ ownerAt(g.placedTiles, p) = Incorporated)}
    IN [g EXCEPT
          !.placedTiles = assignTilesToCorporation(@, assigned, m.acquirer),
          !.corporations =
              [c \in Corps |->
                  IF c = m.defunct
                  THEN [@[c] EXCEPT !.isActive = FALSE, !.size = 0, !.stocks = InitialStocks]
                  ELSE IF c = m.acquirer
                  THEN [@[c] EXCEPT !.size = @ + Cardinality(assigned)]
                  ELSE @[c]]]

---------------------------------------------------------------------------
(* Game. *)

currentPlayer(g) == g.players[(g.turnCount % Len(g.players)) + 1]

markUnplayableTiles(g) ==
    LET unplayable(t) ==
            /\ t # Undefined
            /\ ~t.isPlaced
            /\ LET adjacentCorps == groupKeys(g.placedTiles, getAdjacentTiles(g.placedTiles, t.position))
                   safeCorporations == {c \in adjacentCorps \cap Corps : g.corporations[c].isSafe}
               IN Cardinality(safeCorporations) > 1
    IN [g EXCEPT !.tiles =
            [u \in Users |->
                [i \in DOMAIN g.tiles[u] |->
                    IF unplayable(g.tiles[u][i])
                    THEN [g.tiles[u][i] EXCEPT !.exchange = TRUE]
                    ELSE g.tiles[u][i]]]]

growCorporation(g, name) ==
    LET incorporatedTiles == {p \in g.connectedTiles : ownerAt(g.placedTiles, p) = Incorporated}
        g1 == [g EXCEPT !.placedTiles = assignTilesToCorporation(@, incorporatedTiles, name)]
        g2 == IF ~isMerging(g.state) THEN increaseSize(g1, name, Cardinality(incorporatedTiles)) ELSE g1
    IN IF g2.corporations[name].size > SafeSize - 1
       THEN markUnplayableTiles(markSafe(g2, name))
       ELSE g2

(* The corporations among the connected tiles. *)
mergingCorporations(g) == groupKeys(g.placedTiles, g.connectedTiles) \ {Incorporated}

(* findMergingCorporations()[0] and [1] are largest-first; these are the   *)
(* candidates for each place.                                              *)
largestOf(g, cs) == {c \in cs : \A d \in cs : g.corporations[d].size <= g.corporations[c].size}

mergeTwoCorporation(g, acquirer, defunct, multipleMerge) ==
    LET g1 == [g EXCEPT !.merger = newMerger(g, acquirer, defunct, multipleMerge)]
        g2 == distributeBonuses(g1, defunct)
    IN forceTransition(g2, "merge", acquirer)

handleMultipleDefunct(g) == forceTransition(g, "defunct-selection", g.acquirerInfo)

handleMultipleMerge(g) ==
    LET merging == mergingCorporations(g)
        potentialAcquirers == largestOf(g, merging)
    IN IF Cardinality(potentialAcquirers) > 1
       THEN forceTransition(g, "acquirer-selection", "")
       ELSE LET acquirer == CHOOSE c \in potentialAcquirers : TRUE
                g1 == [g EXCEPT !.acquirerInfo = acquirer]
                potentialDefunct == merging \ potentialAcquirers
                equalDefunct == largestOf(g, potentialDefunct)
            IN IF Cardinality(equalDefunct) > 1
               THEN handleMultipleDefunct(g1)
               ELSE mergeTwoCorporation(g1, acquirer, CHOOSE c \in equalDefunct : TRUE, TRUE)

hasInactiveCorp(g) == \E c \in Corps : ~g.corporations[c].isActive

canEstablishCorporation(g) ==
    LET keys == groupKeys(g.placedTiles, g.connectedTiles)
    IN /\ Cardinality(keys) = 1
       /\ Cardinality({p \in g.connectedTiles : ownerAt(g.placedTiles, p) = Incorporated}) > 1
       /\ hasInactiveCorp(g)

canGrowCorporation(g) ==
    LET keys == groupKeys(g.placedTiles, g.connectedTiles)
    IN /\ Cardinality(keys) = 2
       /\ Cardinality({p \in g.connectedTiles : ownerAt(g.placedTiles, p) = Incorporated}) >= 1

hasMergeConflict(g) ==
    /\ Cardinality(groupKeys(g.placedTiles, g.connectedTiles)) = 3
    /\ Cardinality(largestOf(g, mergingCorporations(g))) > 1

handleTilePlacement(g) ==
    LET keys == groupKeys(g.placedTiles, g.connectedTiles)
    IN IF canEstablishCorporation(g)
       THEN forceTransition(g, "establish-corporation", "")
       ELSE IF canGrowCorporation(g)
       THEN forceTransition(growCorporation(g, CHOOSE c \in keys : c # Incorporated),
                            "buy-stocks", "")
       ELSE IF hasMergeConflict(g)
       THEN forceTransition(g, "merge-conflict", "")
       ELSE IF Cardinality(keys) > 3
       THEN handleMultipleMerge(g)
       ELSE IF Cardinality(keys) = 3
       THEN LET acquirer == CHOOSE c \in largestOf(g, mergingCorporations(g)) : TRUE
                defunct == CHOOSE c \in largestOf(g, mergingCorporations(g) \ {acquirer}) : TRUE
            IN mergeTwoCorporation(g, acquirer, defunct, FALSE)
       ELSE forceTransition(g, "buy-stocks", "")

(* Game.placeTile up to the call of Player.placeTile, which may throw. *)
placeTileBefore(g, position) ==
    LET board == boardPlaceTile(g.placedTiles, position, Incorporated)
    IN [g EXCEPT !.placedTiles = board,
                 !.connectedTiles = findConnectedTiles(board, position)]

placeTileThrows(g, username, position) ==
    playerPlaceTileThrows(g.tiles[username], position)

placeTile(g, username, position) ==
    LET g1 == placeTileBefore(g, position)
    IN IF placeTileThrows(g, username, position)
       THEN g1
       ELSE handleTilePlacement(
                [g1 EXCEPT !.tiles[username] = playerPlaceTile(@, position)])

establishCorporation(g, name) ==
    LET player == currentPlayer(g)
        g1 == growCorporation(corpEstablish(g, name), name)
        g2 == decrementStocks(addStocks(g1, player, name, 1), name, 1)
    IN forceTransition(g2, "buy-stocks", "")

gameBuyStocks(g, purchases) ==
    forceTransition(marketBuyStocks(g, currentPlayer(g), purchases), "tile-placed", "")

endMerge(g) == forceTransition(g, "buy-stocks", "")

(* Variant of checkGameEnd that ends the game on a large corporation only. *)
checkGameEndOnlyLarge(g) ==
    \E c \in Corps : g.corporations[c].isActive /\ g.corporations[c].size >= GameEndSize

checkGameEnd(g) ==
    LET activeCorporations == {c \in Corps : g.corporations[c].isActive}
    IN /\ activeCorporations # {}
       /\ \/ \E c \in activeCorporations : g.corporations[c].size >= GameEndSize
          \/ \A c \in activeCorporations : g.corporations[c].isSafe

RECURSIVE calculateFinalEarnings(_, _)
calculateFinalEarnings(g, names) ==
    IF names = <<>>
    THEN [g EXCEPT !.result =
             [i \in DOMAIN g.players |->
                 [name |-> g.players[i], balance |-> g.balance[g.players[i]],
                  stocks |-> g.stocks[g.players[i]]]]]
    ELSE calculateFinalEarnings(
            liquidateCorporation(distributeBonuses(g, Head(names)), Head(names)),
            Tail(names))

endGame(g) ==
    calculateFinalEarnings(
        forceTransition(g, "game-end", ""),
        SelectSeq(CorpOrder, LAMBDA c : g.corporations[c].isActive))

(* #refillPlayerTile: one tile for the placed slot, then one more for each *)
(* hand tile marked for exchange.                                          *)
RECURSIVE exchangeFrom(_, _, _)
exchangeFrom(hand, st, i) ==
    IF i > Len(hand) THEN [hand |-> hand, stack |-> st]
    ELSE IF hand[i] # Undefined /\ hand[i].exchange
    THEN exchangeFrom([hand EXCEPT ![i] = pickTile(st)], afterPick(st), i + 1)
    ELSE exchangeFrom(hand, st, i + 1)

refillPlayerTile(g) ==
    LET u == currentPlayer(g)
        newTile == pickTile(g.stack)
        refilled == refillTile(g.tiles[u], newTile)
        exchanged == exchangeFrom(refilled, afterPick(g.stack), 1)
    IN [g EXCEPT !.tiles[u] = exchanged.hand, !.stack = exchanged.stack]

(* Variant of changeTurn that counts two turns instead of one. *)
changeTurnSkipping(g) ==
    IF checkGameEnd(g) THEN endGame(g)
    ELSE LET g1 == refillPlayerTile(g)
             g2 == endTurn(g1, currentPlayer(g1))
             g3 == [g2 EXCEPT !.turnCount = @ + 2]
             g4 == startTurn(g3, currentPlayer(g3))
         IN forceTransition(g4, "place-tile", "")

changeTurn(g) ==
    IF checkGameEnd(g) THEN endGame(g)
    ELSE LET g1 == refillPlayerTile(g)
             g2 == endTurn(g1, currentPlayer(g1))
             g3 == [g2 EXCEPT !.turnCount = @ + 1]
             g4 == startTurn(g3, currentPlayer(g3))
         IN forceTransition(g4, "place-tile", "")

endMergerTurn(g) ==
    LET g1 == mergerEndTurn(g)
        g2 == endTurn(g1, currentPlayer(g1))
        g3 == [g2 EXCEPT !.turnCount = @ + 1]
        g4 == startTurn(g3, currentPlayer(g3))
        g5 == distributeBonuses(g4, g4.merger.defunct)
    IN IF mergerHasEnd(g5)
       THEN handleTilePlacement(markUnplayableTiles(mergerEnd(g5)))
       ELSE g5

dealDefunctStocks(g, sell, trade) ==
    endMergerTurn(mergerDeal(g, currentPlayer(g), sell, trade))

---------------------------------------------------------------------------
(* Game.start: setup(), then the first player's turn opens. *)

RECURSIVE provideInitialAssets(_, _)
provideInitialAssets(g, i) ==
    IF i > Len(g.players) THEN g
    ELSE LET u == g.players[i]
             g1 == addIncome(g, u, InitialBalance)
         IN provideInitialAssets(
                [g1 EXCEPT !.tiles[u] = @ \o pickTiles(g.stack, TilesPerPlayer),
                           !.stack = afterPicks(@, TilesPerPlayer)],
                i + 1)

(* a.position.x - b.position.x || a.position.y - b.position.y *)
positionBefore(a, b) == a[1] < b[1] \/ (a[1] = b[1] /\ a[2] < b[2])

decidePlayingOrder(g) ==
    LET n == Len(g.players)
        setupTiles == [i \in 1 .. n |-> g.stack[i]]
        rank(i) == 1 + Cardinality({j \in 1 .. n :
                        positionBefore(setupTiles[j].position, setupTiles[i].position)})
        sorted == [k \in 1 .. n |-> CHOOSE i \in 1 .. n : rank(i) = k]
    IN [g EXCEPT
          !.players = [k \in 1 .. n |-> g.players[sorted[k]]],
          !.stack = SubSeq(@, n + 1, Len(@)),
          !.placedTiles = [p \in Positions |->
                              IF \E i \in 1 .. n : setupTiles[i].position = p
                              THEN <<Incorporated>> ELSE <<>>]]

gameStart(g, shuffleFn) ==
    LET g1 == [g EXCEPT !.stack = shuffle(shuffleFn, createTiles)]
        g2 == decidePlayingOrder(provideInitialAssets(g1, 1))
        g3 == forceTransition(g2, "place-tile", "")
    IN startTurn(g3, currentPlayer(g3))

(* Game.fromJSON over saved data holding the given game's players,         *)
(* corporations, placed tiles and tile stack.                              *)
fromJSON(g) ==
    [g EXCEPT
        !.state = "place-tile",
        !.acquirerInfo = "",
        !.turnCount = 0,
        !.isTakingTurn = [u \in Users |-> u = g.players[1]],
        !.connectedTiles = {},
        !.merger = NoMerger,
        !.result = <<>>]

---------------------------------------------------------------------------
(* The requests of the game router. *)

Request(route, byCurrent, status) ==
    [route |-> route, byCurrent |-> byCurrent, status |-> status]

(* The routes behind the validatePlayer middleware. *)
GuardedRoutes ==
    {"tile", "end-turn", "merger/deal", "merger/end-turn", "merger/resolve-conflict",
     "merger/resolve-acquirer", "merger/confirm-defunct", "buy-stocks", "establish"}

Apply(g) ==
    /\ state' = g.state
    /\ acquirerInfo' = g.acquirerInfo
    /\ players' = g.players
    /\ turnCount' = g.turnCount
    /\ balance' = g.balance
    /\ stocks' = g.stocks
    /\ tiles' = g.tiles
    /\ isTakingTurn' = g.isTakingTurn
    /\ placedTiles' = g.placedTiles
    /\ connectedTiles' = g.connectedTiles
    /\ stack' = g.stack
    /\ corporations' = g.corporations
    /\ merger' = g.merger
    /\ result' = g.result

gameVars == <<state, acquirerInfo, players, turnCount, balance, stocks, tiles,
              isTakingTurn, placedTiles, connectedTiles, stack, corporations, merger,
              result>>

Started == state # "setup"

Handled(route, u, status) ==
    /\ lastRequest' = Request(route, u = currentPlayer(Game), status)
    /\ requests' = requests + 1

validatePlayer(u) == u = currentPlayer(Game)

(* The sockets of the /game namespace and the requests a run follows. *)
GameSockets == {"g1", "g2"}
MaxInFlight == 3

(* Nothing has happened on the /game namespace: no request has arrived,    *)
(* the room game:{id} is empty, nothing was emitted or received.           *)
NoFanout ==
    [arrived |-> 0, inFlight |-> {}, applied |-> <<>>, room |-> {},
     outbox |-> [x \in GameSockets |-> <<>>],
     observed |-> [x \in GameSockets |-> <<>>]]

(* No status was read; the current turn of the turn manager names nobody. *)
NoRead ==
    [to |-> "", of |-> <<>>, reply |-> <<>>, again |-> FALSE,
     turnPlayer |-> [you |-> FALSE, username |-> ""]]

(* The lobby whose game this is: the :lobbyId of the requests. *)
GameLobbyId == "l1"

gameRoom(lobbyId) == IF lobbyId = "l1" THEN "game:l1" ELSE "game:other"

(* SocketManager.broadcastGameUpdate(lobbyId), the lobby having a game. *)
broadcastGameUpdate(lobbyId) == gameUpdates' = {gameRoom(lobbyId)}

(* The handler ends without a broadcast. *)
NoBroadcast == gameUpdates' = {}

---------------------------------------------------------------------------
(* Voice signalling (voice-handler.js): the sockets of the /voice          *)
(* namespace, the rooms they joined and the relay of offer, answer and     *)
(* ICE-candidate messages.                                                 *)

Sockets == {"s1", "s2", "s3"}

VoiceRoomIds == {"r1", "r2"}

(* The Socket.IO room a voice room is joined as: `voice:${roomId}`. *)
voiceRoomName(roomId) == IF roomId = "r1" THEN "voice:r1" ELSE "voice:r2"

VOICE_EVENTS == {"voice:offer", "voice:answer", "voice:ice-candidate"}

(* What a client can send as targetId: a socket id, the name of a room,    *)
(* an id nobody has, or nothing.                                           *)
TargetIds == Sockets \cup {voiceRoomName(r) : r \in VoiceRoomIds} \cup {"gone", ""}

Voice == [rooms |-> voiceRooms, users |-> voiceUsers]

NoRelay == [event |-> "none", sender |-> "", targetId |-> "", recipients |-> {}]

(* Map.get(roomId): the member set of a room, empty when the Map has no    *)
(* such key.                                                               *)
membersOf(rooms, roomId) == IF roomId \in DOMAIN rooms THEN rooms[roomId] ELSE {}

(* room.delete(socketId), and rooms.delete(roomId) when the room is left   *)
(* empty; nothing when the Map has no such room.                           *)
deleteFromRoom(rooms, roomId, socket) ==
    IF roomId \notin DOMAIN rooms
    THEN rooms
    ELSE IF rooms[roomId] \ {socket} = {}
    THEN [r \in DOMAIN rooms \ {roomId} |-> rooms[r]]
    ELSE [rooms EXCEPT ![roomId] = @ \ {socket}]

(* rooms.set(roomId, new Set()) when the Map has no such room, then        *)
(* room.add(socketId).                                                     *)
addToRoom(rooms, roomId, socket) ==
    [r \in DOMAIN rooms \cup {roomId} |->
        IF r = roomId THEN membersOf(rooms, r) \cup {socket} ELSE rooms[r]]

leaveRoom(v, socket) ==
    IF v.users[socket] = ""
    THEN v
    ELSE [rooms |-> deleteFromRoom(v.rooms, v.users[socket], socket),
          users |-> [v.users EXCEPT ![socket] = ""]]

joinRoom(v, socket, roomId) ==
    LET left == leaveRoom(v, socket)
    IN  [rooms |-> addToRoom(left.rooms, roomId, socket),
         users |-> [left.users EXCEPT ![socket] = roomId]]

(* SocketManager (socket-handler.js) keeps tables of its own for the same  *)
(* namespace: voiceRooms, and for every client the lobbyId it last joined  *)
(* and whether it is in voice.  NoClient is the record of a client that    *)
(* connected without a lobbyId in its handshake.                           *)
NoClient == [lobbyId |-> "", inVoice |-> FALSE]

(* The voiceJoin handler of SocketManager, id being data?.lobbyId ||       *)
(* lobbyId and not empty.                                                  *)
voiceJoin(m, socket, id) ==
    [voiceRooms |-> addToRoom(m.voiceRooms, id, socket),
     clients |-> [m.clients EXCEPT ![socket] = [lobbyId |-> id, inVoice |-> TRUE]]]

(* SocketManager.handleVoiceLeave *)
handleVoiceLeave(m, socket) ==
    IF m.clients[socket].lobbyId = "" \/ ~m.clients[socket].inVoice
    THEN m
    ELSE [voiceRooms |-> deleteFromRoom(m.voiceRooms, m.clients[socket].lobbyId, socket),
          clients |-> [m.clients EXCEPT ![socket].inVoice = FALSE]]

(* namespace.to(targetId): the connected sockets in the Socket.IO room of  *)
(* that name.  Every socket is in the room named by its own id, and in     *)
(* `voice:${roomId}` while it is in that voice room.                       *)
socketsIn(targetId) ==
    {x \in voiceConnected :
        \/ x = targetId
        \/ \E r \in VoiceRoomIds : targetId = voiceRoomName(r) /\ x \in membersOf(voiceRooms, r)}

VoiceInit ==
    /\ voiceConnected = {}
    /\ voiceRooms = [r \in {} |-> {}]
    /\ voiceUsers = [x \in Sockets |-> ""]
    /\ voiceManager = [voiceRooms |-> [r \in {} |-> {}], clients |-> [x \in Sockets |-> NoClient]]
    /\ voiceRelay = NoRelay

VoiceUnchanged == UNCHANGED <<gameVars, lastRequest, requests, marketCall, lobbyVars, gameUpdates, fanout, statusRead>>

(* A socket connects to the /voice namespace. *)
VoiceConnect(socket) ==
    /\ socket \notin voiceConnected
    /\ voiceConnected' = voiceConnected \cup {socket}
    /\ voiceManager' = [voiceManager EXCEPT !.clients[socket] = NoClient]
    /\ voiceRelay' = NoRelay
    /\ UNCHANGED <<voiceRooms, voiceUsers>>
    /\ VoiceUnchanged

(* voice:join; roomId is data?.roomId || socket.lobbyId, "" when neither. *)
VoiceJoin(socket, roomId) ==
    /\ socket \in voiceConnected
    /\ IF roomId = ""
       THEN UNCHANGED <<voiceRooms, voiceUsers>>
       ELSE /\ voiceRooms' = joinRoom(Voice, socket, roomId).rooms
            /\ voiceUsers' = joinRoom(Voice, socket, roomId).users
    /\ voiceRelay' = NoRelay
    /\ UNCHANGED <<voiceConnected, voiceManager>>
    /\ VoiceUnchanged

(* voice:leave *)
VoiceLeave(socket) ==
    /\ socket \in voiceConnected
    /\ voiceRooms' = leaveRoom(Voice, socket).rooms
    /\ voiceUsers' = leaveRoom(Voice, socket).users
    /\ voiceRelay' = NoRelay
    /\ UNCHANGED <<voiceConnected, voiceManager>>
    /\ VoiceUnchanged

(* disconnect *)
VoiceDisconnect(socket) ==
    /\ socket \in voiceConnected
    /\ voiceConnected' = voiceConnected \ {socket}
    /\ voiceRooms' = leaveRoom(Voice, socket).rooms
    /\ voiceUsers' = leaveRoom(Voice, socket).users
    /\ voiceManager' = [handleVoiceLeave(voiceManager, socket) EXCEPT !.clients[socket] = NoClient]
    /\ voiceRelay' = NoRelay
    /\ VoiceUnchanged

(* voice:offer, voice:answer and voice:ice-candidate.  hasPayload tells    *)
(* whether the offer or the answer came with the message; an ICE candidate *)
(* is relayed without that test.                                           *)
VoiceRelayMessage(socket, event, targetId, hasPayload) ==
    /\ socket \in voiceConnected
    /\ IF targetId = "" \/ (event # "voice:ice-candidate" /\ ~hasPayload)
       THEN voiceRelay' = NoRelay
       ELSE voiceRelay' = [event |-> event, sender |-> socket,
                           targetId |-> targetId,
                           recipients |-> socketsIn(targetId)]
    /\ UNCHANGED <<voiceConnected, voiceRooms, voiceUsers, voiceManager>>
    /\ VoiceUnchanged

(* voiceJoin of SocketManager; lobbyId is data?.lobbyId || socket.lobbyId,  *)
(* "" when neither.                                                        *)
ManagerVoiceJoin(socket, lobbyId) ==
    /\ socket \in voiceConnected
    /\ voiceManager' = IF lobbyId = "" THEN voiceManager ELSE voiceJoin(voiceManager, socket, lobbyId)
    /\ voiceRelay' = NoRelay
    /\ UNCHANGED <<voiceConnected, voiceRooms, voiceUsers>>
    /\ VoiceUnchanged

(* voiceLeave of SocketManager *)
ManagerVoiceLeave(socket) ==
    /\ socket \in voiceConnected
    /\ voiceManager' = handleVoiceLeave(voiceManager, socket)
    /\ voiceRelay' = NoRelay
    /\ UNCHANGED <<voiceConnected, voiceRooms, voiceUsers>>
    /\ VoiceUnchanged

(* The membership events of the /voice namespace, as both handlers of the  *)
(* namespace see them.                                                     *)
VoiceTablesNext ==
    \/ \E socket \in Sockets : VoiceConnect(socket)
    \/ \E socket \in Sockets, roomId \in VoiceRoomIds \cup {""} : VoiceJoin(socket, roomId)
    \/ \E socket \in Sockets : VoiceLeave(socket)
    \/ \E socket \in Sockets, lobbyId \in VoiceRoomIds \cup {""} : ManagerVoiceJoin(socket, lobbyId)
    \/ \E socket \in Sockets : ManagerVoiceLeave(socket)
    \/ \E socket \in Sockets : VoiceDisconnect(socket)

VoiceNext ==
    \/ \E socket \in Sockets : VoiceConnect(socket)
    \/ \E socket \in Sockets, roomId \in VoiceRoomIds \cup {""} : VoiceJoin(socket, roomId)
    \/ \E socket \in Sockets : VoiceLeave(socket)
    \/ \E socket \in Sockets : VoiceDisconnect(socket)
    \/ \E socket \in Sockets, event \in VOICE_EVENTS, targetId \in TargetIds,
          hasPayload \in BOOLEAN :
           VoiceRelayMessage(socket, event, targetId, hasPayload)

---------------------------------------------------------------------------
(* Lobbies and the life cycle of their games: LobbyManager                 *)
(* (middleware/lobby.js), Lobby (models/game-config.js), the lobby routers *)
(* and the routes of the game router that attach or finish a game.         *)

(* CONFIG and LOBBY_SIZE.  The program allows 200 lobbies, 100 games, six  *)
(* players and waits 30 minutes, 5 minutes and 2 hours.                    *)
MAX_LOBBIES == 2
MAX_ACTIVE_GAMES == 1
LOBBY_IDLE_TIMEOUT == 1
FINISHED_GAME_RETENTION == 1
GAME_IDLE_TIMEOUT == 2
LobbyLowerLimit == 2
LobbyUpperLimit == 2
MaxTime == 3
MaxLobbyRequests == 5

LobbyIds == {"l1", "l2", "l3"}

(* crypto.randomBytes(8): an id no lobby has; the model takes the first. *)
freshLobbyId(taken) ==
    IF "l1" \notin taken THEN "l1" ELSE IF "l2" \notin taken THEN "l2" ELSE "l3"

(* The usernames a request body can carry, and what trim() makes of them. *)
RawNames == {"p1", " p1", "p2", " ", ""}
trim(name) == IF name = " p1" THEN "p1" ELSE IF name = " " THEN "" ELSE name

NoLobby == [exists |-> FALSE, players |-> <<>>, hasExpired |-> FALSE, lastActivityAt |-> 0]
NoGame == [exists |-> FALSE, isFinished |-> FALSE, finishedAt |-> 0, lastActivityAt |-> 0]

LobbyInit ==
    /\ lobbies = [id \in LobbyIds |-> NoLobby]
    /\ games = [id \in LobbyIds |-> NoGame]
    /\ now = 0
    /\ lobbyReply = [route |-> "none", lobbyId |-> "", status |-> 0, reaped |-> {}]

(* Variant of isFull that is true only beyond the upper limit. *)
isFullOnlyBeyond(lobby) == Len(lobby.players) > LobbyUpperLimit

isFull(lobby) == Len(lobby.players) = LobbyUpperLimit
isEmpty(lobby) == Len(lobby.players) = 0

(* Variant of isPossibleToStartGame that asks for one player only. *)
isPossibleToStartGameAlone(lobby) == Len(lobby.players) >= 1

isPossibleToStartGame(lobby) == Len(lobby.players) >= LobbyLowerLimit
addPlayer(lobby, username) ==
    [lobby EXCEPT !.players = Append(@, username), !.lastActivityAt = now]

(* Lobby.removePlayer: the first player of that name. *)
removePlayer(lobby, username) ==
    LET index == CHOOSE i \in 1 .. Len(lobby.players) :
                     /\ lobby.players[i] = username
                     /\ \A j \in 1 .. i - 1 : lobby.players[j] # username
    IN [lobby EXCEPT
           !.players = [k \in 1 .. Len(@) - 1 |-> IF k < index THEN @[k] ELSE @[k + 1]],
           !.lastActivityAt = now]

countActiveLobbies ==
    Cardinality({id \in LobbyIds : lobbies[id].exists /\ ~lobbies[id].hasExpired})
countActiveGames ==
    Cardinality({id \in LobbyIds : games[id].exists /\ ~games[id].isFinished})

(* Variants of the capacity tests that admit one more. *)
lobbiesAtCapacityOffByOne == countActiveLobbies > MAX_LOBBIES
gamesAtCapacityOffByOne == countActiveGames > MAX_ACTIVE_GAMES

(* createLobby and setGame throw when these hold. *)
lobbiesAtCapacity == countActiveLobbies >= MAX_LOBBIES
gamesAtCapacity == countActiveGames >= MAX_ACTIVE_GAMES

setGame(lobbyId) ==
    [games EXCEPT ![lobbyId] = [exists |-> TRUE, isFinished |-> FALSE,
                                finishedAt |-> 0, lastActivityAt |-> now]]

updateGameActivity(lobbyId) ==
    IF games[lobbyId].exists THEN [games EXCEPT ![lobbyId].lastActivityAt = now] ELSE games

isMember(lobbyId, username) ==
    lobbies[lobbyId].exists /\ username \in Range(lobbies[lobbyId].players)

Replied(route, lobbyId, status) ==
    /\ lobbyReply' = [route |-> route, lobbyId |-> lobbyId, status |-> status, reaped |-> {}]
    /\ requests' = requests + 1
    /\ UNCHANGED <<gameVars, lastRequest, voiceVars, marketCall, now, gameUpdates, fanout, statusRead>>

(* POST /host *)
HostLobby(username) ==
    IF trim(username) = ""
    THEN Replied("host", "", 400) /\ UNCHANGED <<lobbies, games>>
    ELSE IF lobbiesAtCapacity
    THEN Replied("host", "", 503) /\ UNCHANGED <<lobbies, games>>
    ELSE LET taken == {id \in LobbyIds : lobbies[id].exists}
             lobbyId == freshLobbyId(taken)
         IN /\ taken # LobbyIds
            /\ lobbies' = [lobbies EXCEPT ![lobbyId] =
                              addPlayer([NoLobby EXCEPT !.exists = TRUE], trim(username))]
            /\ Replied("host", lobbyId, 201)
            /\ UNCHANGED games

(* POST /lobby/:lobbyId/players: doNotJoinIfLobbyIsFull,                   *)
(* checkDuplicateUsername, joinPlayer.                                     *)
JoinLobby(lobbyId, username) ==
    /\ lobbies[lobbyId].exists
    /\ UNCHANGED games
    /\ IF isFull(lobbies[lobbyId])
       THEN Replied("join", lobbyId, 401) /\ UNCHANGED lobbies
       ELSE IF username \in Range(lobbies[lobbyId].players)
       THEN Replied("join", lobbyId, 400) /\ UNCHANGED lobbies
       ELSE IF trim(username) = ""
       THEN Replied("join", lobbyId, 400) /\ UNCHANGED lobbies
       ELSE /\ lobbies' = [lobbies EXCEPT ![lobbyId] = addPlayer(@, trim(username))]
            /\ Replied("join", lobbyId, 302)

(* POST /lobby/:lobbyId/leave, by a member *)
LeaveLobby(lobbyId, username) ==
    /\ isMember(lobbyId, username)
    /\ IF lobbies[lobbyId].hasExpired
       THEN Replied("leave", lobbyId, 400) /\ UNCHANGED <<lobbies, games>>
       ELSE /\ Replied("leave", lobbyId, 200)
            /\ IF isEmpty(removePlayer(lobbies[lobbyId], username))
               THEN /\ lobbies' = [lobbies EXCEPT ![lobbyId] = NoLobby]
                    /\ games' = [games EXCEPT ![lobbyId] = NoGame]
               ELSE /\ lobbies' = [lobbies EXCEPT ![lobbyId] = removePlayer(@, username)]
                    /\ UNCHANGED games

(* POST /game/:lobbyId/start by a member: trackGameActivity, verifyHost,   *)
(* verifyStart, startGame.                                                 *)
StartLobbyGame(lobbyId, username) ==
    /\ isMember(lobbyId, username)
    /\ IF username # lobbies[lobbyId].players[1]
       THEN /\ Replied("start", lobbyId, 403)
            /\ games' = updateGameActivity(lobbyId)
            /\ UNCHANGED lobbies
       ELSE IF ~isPossibleToStartGame(lobbies[lobbyId])
       THEN /\ Replied("start", lobbyId, 400)
            /\ games' = updateGameActivity(lobbyId)
            /\ UNCHANGED lobbies
       ELSE IF gamesAtCapacity
       THEN /\ Replied("start", lobbyId, 503)
            /\ games' = updateGameActivity(lobbyId)
            /\ UNCHANGED lobbies
       ELSE /\ Replied("start", lobbyId, 200)
            /\ games' = setGame(lobbyId)
            /\ lobbies' = [lobbies EXCEPT ![lobbyId].hasExpired = TRUE]

(* POST /game/:lobbyId/load: no membership is asked for; the username of   *)
(* the cookie is not read.                                                 *)
LoadLobbyGame(lobbyId, username) ==
    /\ lobbies[lobbyId].exists
    /\ IF gamesAtCapacity
       THEN Replied("load", lobbyId, 400) /\ UNCHANGED <<lobbies, games>>
       ELSE /\ Replied("load", lobbyId, 201)
            /\ games' = setGame(lobbyId)
            /\ lobbies' = [lobbies EXCEPT ![lobbyId].hasExpired = TRUE]

(* POST /game/:lobbyId/test: the game is attached, the lobby is not        *)
(* expired; the error of setGame is not caught.  The username of the       *)
(* cookie is not read.                                                     *)
ConfigureLobbyGame(lobbyId, username) ==
    /\ lobbies[lobbyId].exists
    /\ UNCHANGED lobbies
    /\ IF gamesAtCapacity
       THEN Replied("test", lobbyId, 500) /\ UNCHANGED games
       ELSE Replied("test", lobbyId, 201) /\ games' = setGame(lobbyId)

(* GET /game/:lobbyId/end-result by a member: trackGameActivity, then      *)
(* markGameFinished; without a game the handler fails on game.result.      *)
GameResult(lobbyId, username) ==
    /\ isMember(lobbyId, username)
    /\ UNCHANGED lobbies
    /\ IF games[lobbyId].exists
       THEN /\ games' = [games EXCEPT ![lobbyId].lastActivityAt = now,
                                      ![lobbyId].isFinished = TRUE,
                                      ![lobbyId].finishedAt = now]
            /\ Replied("end-result", lobbyId, 200)
       ELSE Replied("end-result", lobbyId, 500) /\ UNCHANGED games

(* Time passes. *)
Tick ==
    /\ now < MaxTime
    /\ now' = now + 1
    /\ UNCHANGED <<gameVars, lastRequest, requests, voiceVars, marketCall,
                   lobbies, games, lobbyReply, gameUpdates, fanout, statusRead>>

(* Variant of shouldDelete that applies the lobby idle rule to expired     *)
(* lobbies too.                                                            *)
shouldDeleteIdleExpired(lobbyId) ==
    \/ isEmpty(lobbies[lobbyId])
    \/ now - lobbies[lobbyId].lastActivityAt > LOBBY_IDLE_TIMEOUT
    \/ games[lobbyId].isFinished /\ now - games[lobbyId].finishedAt > FINISHED_GAME_RETENTION
    \/ /\ lobbies[lobbyId].hasExpired
       /\ games[lobbyId].exists
       /\ now - games[lobbyId].lastActivityAt > GAME_IDLE_TIMEOUT

(* Variant of shouldDelete without the idle rule for started games. *)
shouldDeleteUnlessStarted(lobbyId) ==
    \/ isEmpty(lobbies[lobbyId])
    \/ ~lobbies[lobbyId].hasExpired
         /\ now - lobbies[lobbyId].lastActivityAt > LOBBY_IDLE_TIMEOUT
    \/ games[lobbyId].isFinished /\ now - games[lobbyId].finishedAt > FINISHED_GAME_RETENTION

(* #cleanup: whether the pass puts the lobby on its toDelete list. *)
shouldDelete(lobbyId) ==
    \/ isEmpty(lobbies[lobbyId])
    \/ ~lobbies[lobbyId].hasExpired
         /\ now - lobbies[lobbyId].lastActivityAt > LOBBY_IDLE_TIMEOUT
    \/ games[lobbyId].isFinished /\ now - games[lobbyId].finishedAt > FINISHED_GAME_RETENTION
    \/ /\ lobbies[lobbyId].hasExpired
       /\ games[lobbyId].exists
       /\ now - games[lobbyId].lastActivityAt > GAME_IDLE_TIMEOUT

(* One pass of the cleanup task. *)
Cleanup ==
    LET toDelete == {id \in LobbyIds : lobbies[id].exists /\ shouldDelete(id)}
    IN /\ lobbies' = [id \in LobbyIds |-> IF id \in toDelete THEN NoLobby ELSE lobbies[id]]
       /\ games' = [id \in LobbyIds |-> IF id \in toDelete THEN NoGame ELSE games[id]]
       /\ lobbyReply' = [route |-> "cleanup", lobbyId |-> "", status |-> 0, reaped |-> toDelete]
       /\ UNCHANGED <<gameVars, lastRequest, requests, voiceVars, marketCall, now, gameUpdates, fanout, statusRead>>

WithinLobbyBound == requests < MaxLobbyRequests

LobbyNext ==
    \/ \E username \in RawNames : WithinLobbyBound /\ HostLobby(username)
    \/ \E lobbyId \in LobbyIds, username \in RawNames :
           WithinLobbyBound /\ JoinLobby(lobbyId, username)
    \/ \E lobbyId \in LobbyIds, username \in RawNames :
           WithinLobbyBound /\ LeaveLobby(lobbyId, username)
    \/ \E lobbyId \in LobbyIds, username \in RawNames :
           WithinLobbyBound /\ StartLobbyGame(lobbyId, username)
    \/ \E lobbyId \in LobbyIds, username \in RawNames :
           WithinLobbyBound /\ LoadLobbyGame(lobbyId, username)
    \/ \E lobbyId \in LobbyIds, username \in RawNames :
           WithinLobbyBound /\ ConfigureLobbyGame(lobbyId, username)
    \/ \E lobbyId \in LobbyIds, username \in RawNames :
           WithinLobbyBound /\ GameResult(lobbyId, username)
    \/ Tick
    \/ Cleanup

---------------------------------------------------------------------------
Init ==
    /\ state = "setup"
    /\ acquirerInfo = ""
    /\ players = Usernames
    /\ turnCount = 0
    /\ balance = createPlayers.balance
    /\ stocks = createPlayers.stocks
    /\ tiles = createPlayers.tiles
    /\ isTakingTurn = createPlayers.isTakingTurn
    /\ placedTiles = emptyBoard
    /\ connectedTiles = {}
    /\ stack = <<>>
    /\ corporations = createCorporations
    /\ merger = NoMerger
    /\ result = <<>>
    /\ lastRequest = Request("none", FALSE, 0)
    /\ requests = 0
    /\ VoiceInit
    /\ marketCall = NoCall
    /\ LobbyInit
    /\ gameUpdates = {}
    /\ fanout = NoFanout
    /\ statusRead = NoRead

(* POST /game/:lobbyId/start *)
StartGame(shuffleFn) ==
    /\ state = "setup"
    /\ Apply(gameStart(Game, shuffleFn))
    /\ lastRequest' = Request("start", TRUE, 200)
    /\ broadcastGameUpdate(GameLobbyId)
    /\ UNCHANGED requests

(* Any route behind validatePlayer, asked by a lobby member who is not the  *)
(* current player: the middleware answers 400 and the handler never runs.  *)
(* The answer is the same for every guarded route, so the route is         *)
(* recorded as "guarded".                                                  *)
RejectedByValidatePlayer(u) ==
    /\ Started
    /\ ~validatePlayer(u)
    /\ lastRequest' = Request("guarded", FALSE, 400)
    /\ NoBroadcast
    /\ UNCHANGED <<gameVars, requests>>

(* POST /game/:lobbyId/tile *)
PlaceTileRequest(u, position) ==
    /\ Started
    /\ validatePlayer(u)
    /\ Apply(placeTile(Game, u, position))
    /\ Handled("tile", u, IF placeTileThrows(Game, u, position) THEN 400 ELSE 200)
    /\ IF placeTileThrows(Game, u, position)
       THEN NoBroadcast
       ELSE broadcastGameUpdate(GameLobbyId)

(* POST /game/:lobbyId/end-turn *)
EndTurnRequest(u) ==
    /\ Started
    /\ validatePlayer(u)
    /\ Apply(changeTurn(Game))
    /\ Handled("end-turn", u, 200)
    /\ broadcastGameUpdate(GameLobbyId)

(* POST /game/:lobbyId/buy-stocks *)
BuyStocksRequest(u, purchases) ==
    /\ Started
    /\ validatePlayer(u)
    /\ Apply(gameBuyStocks(Game, purchases))
    /\ Handled("buy-stocks", u, 200)
    /\ broadcastGameUpdate(GameLobbyId)

(* POST /game/:lobbyId/establish *)
EstablishRequest(u, name) ==
    /\ Started
    /\ validatePlayer(u)
    /\ Apply(establishCorporation(Game, name))
    /\ Handled("establish", u, 200)
    /\ broadcastGameUpdate(GameLobbyId)

(* POST /game/:lobbyId/end-merge: no validatePlayer on this route. *)
EndMergeRequest(u) ==
    /\ Started
    /\ Apply(endMerge(Game))
    /\ Handled("end-merge", u, 200)
    /\ broadcastGameUpdate(GameLobbyId)

(* POST /game/:lobbyId/merger/deal *)
MergerDealRequest(u, sell, trade) ==
    /\ Started
    /\ validatePlayer(u)
    /\ merger.exists
    /\ Apply(dealDefunctStocks(Game, sell, trade))
    /\ Handled("merger/deal", u, 200)
    /\ broadcastGameUpdate(GameLobbyId)

(* POST /game/:lobbyId/merger/end-turn *)
MergerEndTurnRequest(u) ==
    /\ Started
    /\ validatePlayer(u)
    /\ merger.exists
    /\ Apply(endMergerTurn(Game))
    /\ Handled("merger/end-turn", u, 200)
    /\ broadcastGameUpdate(GameLobbyId)

(* POST /game/:lobbyId/merger/resolve-conflict *)
ResolveConflictRequest(u, acquirer, defunct) ==
    /\ Started
    /\ validatePlayer(u)
    /\ Apply(mergeTwoCorporation(Game, acquirer, defunct, FALSE))
    /\ Handled("merger/resolve-conflict", u, 200)
    /\ broadcastGameUpdate(GameLobbyId)

(* POST /game/:lobbyId/load, with the data of a game saved from this one. *)
LoadGameRequest ==
    /\ Started
    /\ Apply(fromJSON(Game))
    /\ lastRequest' = Request("load", FALSE, 201)
    /\ requests' = requests + 1
    /\ broadcastGameUpdate(GameLobbyId)

(* POST /game/:lobbyId/test, with the data of a game saved from this one. *)
ConfigureGameRequest ==
    /\ Started
    /\ Apply(fromJSON(Game))
    /\ lastRequest' = Request("test", FALSE, 201)
    /\ requests' = requests + 1
    /\ NoBroadcast

Batches == UNION {[1 .. n -> Corps] : n \in 0 .. MaxBatch}

WithinBound == requests < MaxRequests

Next ==
    \/ \E fn \in Shuffles : StartGame(fn) /\ UNCHANGED otherVars
    \/ \E u \in Users : RejectedByValidatePlayer(u) /\ UNCHANGED otherVars
    \/ \E u \in Users, position \in Positions : WithinBound /\ PlaceTileRequest(u, position) /\ UNCHANGED otherVars
    \/ \E u \in Users : WithinBound /\ EndTurnRequest(u) /\ UNCHANGED otherVars
    \/ \E u \in Users, purchases \in Batches : WithinBound /\ BuyStocksRequest(u, purchases) /\ UNCHANGED otherVars
    \/ \E u \in Users, name \in Corps : WithinBound /\ EstablishRequest(u, name) /\ UNCHANGED otherVars
    \/ \E u \in Users : WithinBound /\ EndMergeRequest(u) /\ UNCHANGED otherVars
    \/ \E u \in Users, sell \in 0 .. MaxDeal, trade \in 0 .. MaxDeal :
           WithinBound /\ MergerDealRequest(u, sell, trade) /\ UNCHANGED otherVars
    \/ \E u \in Users : WithinBound /\ MergerEndTurnRequest(u) /\ UNCHANGED otherVars
    \/ \E u \in Users, acquirer \in Corps, defunct \in Corps :
           WithinBound /\ ResolveConflictRequest(u, acquirer, defunct) /\ UNCHANGED otherVars
    \/ WithinBound /\ LoadGameRequest /\ UNCHANGED otherVars
    \/ WithinBound /\ ConfigureGameRequest /\ UNCHANGED otherVars

Spec == Init /\ [][Next]_vars

(* Establishing corporations and merging two different ones only, followed *)
(* further than Spec follows them.                                         *)
WithinMergerBound == requests < MaxMergerRequests

MergerNext ==
    \/ \E fn \in Shuffles : StartGame(fn) /\ UNCHANGED otherVars
    \/ \E u \in Users, name \in Corps : WithinMergerBound /\ EstablishRequest(u, name) /\ UNCHANGED otherVars
    \/ \E u \in Users, sell \in 0 .. MaxDeal, trade \in 0 .. MaxDeal :
           WithinMergerBound /\ MergerDealRequest(u, sell, trade) /\ UNCHANGED otherVars
    \/ \E u \in Users : WithinMergerBound /\ MergerEndTurnRequest(u) /\ UNCHANGED otherVars
    \/ \E u \in Users, acquirer \in Corps :
           \E defunct \in Corps \ {acquirer} :
               WithinMergerBound /\ ResolveConflictRequest(u, acquirer, defunct) /\ UNCHANGED otherVars

MergerSpec == Init /\ [][MergerNext]_vars

(* Games followed to their end and one request further: tiles, the        *)
(* corporations they establish, purchases and the ends of turns.           *)
MaxEndRequests == 4

WithinEndBound == requests < MaxEndRequests

EndNext ==
    \/ \E fn \in Shuffles : StartGame(fn) /\ UNCHANGED otherVars
    \/ \E u \in Users, position \in Positions : WithinEndBound /\ PlaceTileRequest(u, position) /\ UNCHANGED otherVars
    \/ \E u \in Users, name \in Corps : WithinEndBound /\ EstablishRequest(u, name) /\ UNCHANGED otherVars
    \/ \E u \in Users, purchases \in Batches : WithinEndBound /\ BuyStocksRequest(u, purchases) /\ UNCHANGED otherVars
    \/ \E u \in Users : WithinEndBound /\ EndTurnRequest(u) /\ UNCHANGED otherVars

EndSpec == Init /\ [][EndNext]_vars

(* The voice namespace on its own. *)
VoiceSpec == Init /\ [][VoiceNext]_vars

(* The tables of both voice handlers under join, leave and disconnect. *)
VoiceTablesSpec == Init /\ [][VoiceTablesNext]_vars

(* Lobbies, their games and the cleanup task. *)
LobbySpec == Init /\ [][LobbyNext]_vars

---------------------------------------------------------------------------
(* Requests handled concurrently and the gameUpdate events they cause.     *)
(* Several requests can be in flight; the event loop runs one handler at a *)
(* time, from its first statement to its last (none of them awaits), and a *)
(* socket receives what was emitted to it in the order of emission.        *)

(* Variant of emit that puts the event ahead of those not yet received. *)
emitAhead(queue, event) == <<event>> \o queue

(* namespace.to(room).emit(event), for one socket of the room. *)
emit(queue, event) == Append(queue, event)

FanoutUnchanged ==
    UNCHANGED <<gameVars, lastRequest, requests, gameUpdates, voiceVars, marketCall, lobbyVars, statusRead>>

(* A client sends a request for the game; it is not handled yet. *)
RequestArrives ==
    /\ Started
    /\ fanout.arrived < MaxInFlight
    /\ fanout' = [fanout EXCEPT !.arrived = @ + 1, !.inFlight = @ \cup {fanout.arrived + 1}]
    /\ FanoutUnchanged

(* The handler of request r has run: what the /game namespace holds then.  *)
(* The event goes to the sockets of the room when the handler broadcast.   *)
handled(r) ==
    [fanout EXCEPT
        !.inFlight = @ \ {r},
        !.applied = IF gameVars' # gameVars THEN Append(@, r) ELSE @,
        !.outbox = [x \in GameSockets |->
                       IF x \in fanout.room /\ gameUpdates' # {}
                       THEN emit(@[x], r) ELSE @[x]]]

(* The event loop takes request r, an end-turn of the current player. *)
HandleEndTurn(r) ==
    /\ r \in fanout.inFlight
    /\ EndTurnRequest(currentPlayer(Game))
    /\ fanout' = handled(r)
    /\ UNCHANGED <<voiceVars, marketCall, lobbyVars, statusRead>>

(* The event loop takes request r, a tile of the current player. *)
HandlePlaceTile(r, position) ==
    /\ r \in fanout.inFlight
    /\ PlaceTileRequest(currentPlayer(Game), position)
    /\ fanout' = handled(r)
    /\ UNCHANGED <<voiceVars, marketCall, lobbyVars, statusRead>>

(* joinGame: the game exists. *)
JoinGame(socket) ==
    /\ Started
    /\ fanout' = [fanout EXCEPT !.room = @ \cup {socket}]
    /\ FanoutUnchanged

(* leaveGame *)
LeaveGame(socket) ==
    /\ socket \in fanout.room
    /\ fanout' = [fanout EXCEPT !.room = @ \ {socket}]
    /\ FanoutUnchanged

(* The socket receives the oldest event emitted to it. *)
ReceiveGameUpdate(socket) ==
    /\ fanout.outbox[socket] # <<>>
    /\ fanout' = [fanout EXCEPT
                     !.outbox[socket] = Tail(@),
                     !.observed[socket] = Append(@, Head(fanout.outbox[socket]))]
    /\ FanoutUnchanged

FanoutNext ==
    \/ \E fn \in Shuffles : StartGame(fn) /\ UNCHANGED otherVars
    \/ RequestArrives
    \/ \E r \in 1 .. MaxInFlight : HandleEndTurn(r)
    \/ \E r \in 1 .. MaxInFlight, position \in Positions : HandlePlaceTile(r, position)
    \/ \E socket \in GameSockets : JoinGame(socket)
    \/ \E socket \in GameSockets : LeaveGame(socket)
    \/ \E socket \in GameSockets : ReceiveGameUpdate(socket)

FanoutSpec == Init /\ [][FanoutNext]_vars

---------------------------------------------------------------------------
(* GET /game/:lobbyId/status *)

(* What Game.#getTurns writes into the current turn of the turn manager. *)
currentTurnPlayer(g, username) ==
    [you |-> currentPlayer(g) = username, username |-> currentPlayer(g)]

(* Variant of getTurns that returns the current turn as the turn manager   *)
(* held it before the write.                                               *)
getTurnsBeforeWrite(g, username) == statusRead.turnPlayer

(* Game.#getTurns: the turns, the current one naming the player in turn. *)
getTurns(g, username) == currentTurnPlayer(g, username)

getPlayers(g, username) ==
    [i \in DOMAIN g.players |->
        [username |-> g.players[i], isTakingTurn |-> g.isTakingTurn[g.players[i]],
         you |-> g.players[i] = username]]

playerDetails(g, username) ==
    [tiles |-> g.tiles[username], stocks |-> g.stocks[username],
     balance |-> g.balance[username]]

status(g, username) ==
    [state |-> g.state,
     stateInfo |-> g.acquirerInfo,
     turns |-> getTurns(g, username),
     players |-> getPlayers(g, username),
     portfolio |-> playerDetails(g, username),
     corporations |-> g.corporations,
     placedTiles |-> g.placedTiles]

(* serveGameStats, for a player of the game; again: the same user had read *)
(* the status of the game as it is now.                                    *)
StatusRequest(u) ==
    /\ Started
    /\ statusRead' = [to |-> u, of |-> Game, reply |-> status(Game, u),
                      again |-> statusRead.to = u /\ statusRead.of = Game,
                      turnPlayer |-> currentTurnPlayer(Game, u)]
    /\ UNCHANGED <<gameVars, lastRequest, requests, gameUpdates, voiceVars, marketCall, lobbyVars, fanout>>

StatusNext ==
    \/ Next
    \/ \E u \in Users : StatusRequest(u)

(* The game router with its status route. *)
StatusSpec == Init /\ [][StatusNext]_vars

---------------------------------------------------------------------------
(* The stock market of a game in progress, as POST /load restores it:      *)
(* four players, phoenix with some of its shares held, the methods of      *)
(* StockMarket called on it and the buy-stocks route.                      *)

MaxHeld == 2
MarketShares == 6
MaxMarketBatch == 4
MaxMarketCalls == 1
MaxMarketRequests == 1

MarketPlayers == <<"p1", "p2", "p3", "p4">>
Holders == Range(MarketPlayers)
MarketSizes == {2, 3}
MarketBalances == {0, 400, 2000}

MarketInit ==
    /\ state = "place-tile"
    /\ acquirerInfo = ""
    /\ players = MarketPlayers
    /\ turnCount = 0
    /\ tiles = [u \in Holders |-> <<>>]
    /\ isTakingTurn = [u \in Holders |-> u = MarketPlayers[1]]
    /\ placedTiles = emptyBoard
    /\ connectedTiles = {}
    /\ stack = <<>>
    /\ merger = NoMerger
    /\ result = <<>>
    /\ lastRequest = Request("load", FALSE, 201)
    /\ requests = 0
    /\ VoiceInit
    /\ marketCall = NoCall
    /\ LobbyInit
    /\ gameUpdates = {}
    /\ fanout = NoFanout
    /\ statusRead = NoRead
    /\ \E active \in BOOLEAN, size \in MarketSizes, funds \in MarketBalances,
          held \in [Holders -> 0 .. MaxHeld] :
           /\ SumOver(Holders, held) <= MarketShares
           /\ active \/ size = 2
           /\ corporations =
                [c \in Corps |->
                    IF c = "phoenix"
                    THEN [isActive |-> active, size |-> IF active THEN size ELSE 0,
                          stocks |-> MarketShares - SumOver(Holders, held),
                          isSafe |-> FALSE]
                    ELSE [isActive |-> FALSE, size |-> 0, stocks |-> MarketShares,
                          isSafe |-> FALSE]]
           /\ stocks = [u \in Holders |-> [c \in Corps |-> IF c = "phoenix" THEN held[u] ELSE 0]]
           /\ balance = [u \in Holders |-> IF u = MarketPlayers[1] THEN funds ELSE 0]

Called(fn, u, c, returned) ==
    /\ marketCall' = [fn |-> fn, player |-> u, corp |-> c, returned |-> returned,
                      seq |-> marketCall.seq + 1]
    /\ UNCHANGED <<lastRequest, requests, voiceVars, lobbyVars, gameUpdates, fanout, statusRead>>

(* stockMarket.buyStock(player, corporationName) *)
MarketBuyStock(u, c) ==
    /\ Apply(buyStock(Game, u, c))
    /\ Called("buyStock", u, c, buyStockReturns(Game, u, c))

(* stockMarket.distributeBonuses(corporationName) *)
MarketDistributeBonuses(c) ==
    /\ Apply(distributeBonuses(Game, c))
    /\ Called("distributeBonuses", "", c, TRUE)

(* The batches of a request: up to MaxMarketBatch shares of phoenix, and    *)
(* one that asks for the inactive quantum first.                           *)
MarketBatches ==
    {[i \in 1 .. n |-> "phoenix"] : n \in 0 .. MaxMarketBatch}
        \cup {<<"quantum", "phoenix">>}

MarketNext ==
    \/ \E u \in Holders, c \in Corps :
           marketCall.seq < MaxMarketCalls /\ MarketBuyStock(u, c)
    \/ \E c \in Corps :
           marketCall.seq < MaxMarketCalls /\ MarketDistributeBonuses(c)
    \/ \E u \in Holders, purchases \in MarketBatches :
           requests < MaxMarketRequests /\ BuyStocksRequest(u, purchases) /\ UNCHANGED otherVars

MarketSpec == MarketInit /\ [][MarketNext]_vars

---------------------------------------------------------------------------
(* Properties. *)

Holdings(c) == SumOver(Users, [u \in Users |-> stocks[u][c]])

HandCount ==
    SumOver(Users,
        [u \in Users |->
            Cardinality({i \in DOMAIN tiles[u] :
                            tiles[u][i] # Undefined /\ ~tiles[u][i].isPlaced})])

TakingTurn == {u \in Users : isTakingTurn[u]}

(* A step that answers a request. *)
Answered == lastRequest' # lastRequest \/ requests' # requests

(* C1: for every active corporation, the shares held by the players plus   *)
(* the shares the corporation still has for sale equal the initial number  *)
(* of shares.                                                              *)
C1_SharesConserved ==
    \A c \in Corps :
        corporations[c].isActive => Holdings(c) + corporations[c].stocks = InitialStocks

(* C2: a request answered with an error leaves every part of the game as   *)
(* it was.                                                                 *)
C2_RejectedLeavesGameUnchanged ==
    [][(Answered /\ lastRequest'.status = 400) => UNCHANGED gameVars]_vars

(* C3: after every operation other than a load, a changed game state is    *)
(* one the valid-transition table allows from the previous state.          *)
C3_TransitionsFollowTable ==
    [][(Answered /\ lastRequest'.route # "load" /\ state' # state)
          => state' \in STATE_TRANSITIONS[state]]_vars

(* C4: a place-tile request changes the game only when the requester is    *)
(* the current player, the state is place-tile, and the requester's hand   *)
(* holds at the position a tile neither placed nor marked for exchange.    *)
C4_PlaceTileOnlyWhenAllowed ==
    [][(Answered /\ lastRequest'.route = "tile" /\ gameVars' # gameVars)
          => LET position == CHOOSE p \in Positions :
                                Len(placedTiles'[p]) > Len(placedTiles[p])
                 hand == tiles[currentPlayer(Game)]
             IN /\ lastRequest'.byCurrent
                /\ state = "place-tile"
                /\ \E i \in DOMAIN hand :
                      /\ hand[i] # Undefined
                      /\ hand[i].position = position
                      /\ ~hand[i].isPlaced
                      /\ ~hand[i].exchange]_vars

StateChangingRoutes ==
    GuardedRoutes \cup {"end-merge", "guarded"}

(* C5: a state-changing request by a lobby member who is not the current   *)
(* player is answered with an error and leaves the game unchanged.         *)
C5_OnlyCurrentPlayerActs ==
    [][(Answered /\ lastRequest'.route \in StateChangingRoutes /\ ~lastRequest'.byCurrent)
          => (lastRequest'.status = 400 /\ UNCHANGED gameVars)]_vars

(* C6: the board holds at most one placed tile at each position.  (That    *)
(* placed tiles are never removed holds: every handler only appends.)      *)
C6_OneTilePerPosition ==
    \A p \in Positions : Len(placedTiles[p]) <= 1

(* C7: once the game has started, the unplaced tiles in the hands, the     *)
(* tiles on the board and the tiles on the stack together are all the      *)
(* tiles of the game.                                                      *)
C7_TilesConserved ==
    Started => HandCount + placedCount(placedTiles) + Len(stack) = BoardRows * BoardCols

(* C8: no player holds a share of a corporation that is not active.        *)
C8_NoSharesOfInactive ==
    \A c \in Corps : ~corporations[c].isActive => \A u \in Users : stocks[u][c] = 0

C10_AtMostOneTakingTurn ==
    Cardinality(TakingTurn) <= 1

(* A merger sub-turn has passed the turn to the next player. *)
C10_MergerSubTurnPassed ==
    /\ merger.exists
    /\ merger.turns >= 1
    /\ lastRequest.route \in {"merger/end-turn", "merger/deal"}
    /\ TakingTurn = {currentPlayer(Game)}

InSameVoiceRoom(a, b) == voiceUsers[a] # "" /\ voiceUsers[a] = voiceUsers[b]

(* C11: a voice offer, answer or ICE-candidate message sent by socket S    *)
(* with target T is delivered to a socket if and only if that socket is T  *)
(* and S and T are members of the same voice room at that moment; it is    *)
(* never delivered to a socket in a different room or in no room.          *)
C11_RelayOnlyWithinRoom ==
    voiceRelay.event # "none" =>
        \A x \in Sockets :
            x \in voiceRelay.recipients <=>
                x = voiceRelay.targetId /\ InSameVoiceRoom(voiceRelay.sender, x)

SharesHeld(u) == SumOver(Corps, [c \in Corps |-> stocks[u][c]])

(* C12: within a single turn the current player acquires at most three     *)
(* shares through buy-stocks: of a batch of more than three entries only   *)
(* the first three are applied.                                            *)
C12_AtMostThreePurchases ==
    [][lastRequest'.route = "buy-stocks" /\ requests' = requests + 1
         => \A u \in Range(players) : SharesHeld(u)' <= SharesHeld(u) + 3]_vars

DirectCall(fn) == marketCall'.seq # marketCall.seq /\ marketCall'.fn = fn

(* C13: buy(player, C) succeeds if and only if C is active, C has at least *)
(* one share remaining and the player's balance is at least C's price; on  *)
(* success the balance is debited by the price, the player's shares of C   *)
(* grow by one and C's remaining shares drop by one; otherwise it returns  *)
(* failure and changes nothing.                                            *)
C13_BuyStock ==
    [][DirectCall("buyStock") =>
        LET u == marketCall'.player
            c == marketCall'.corp
            price == corpPrice(Game, c)
            allowed == /\ corporations[c].isActive
                       /\ corporations[c].stocks >= 1
                       /\ balance[u] >= price
        IN /\ marketCall'.returned <=> allowed
           /\ allowed => /\ balance'[u] = balance[u] - price
                         /\ stocks'[u][c] = stocks[u][c] + 1
                         /\ corporations'[c].stocks = corporations[c].stocks - 1
           /\ ~allowed => UNCHANGED gameVars]_vars

(* A purchase that took the whole of the player's balance. *)
C13_BoughtWithLastMoney ==
    /\ marketCall.fn = "buyStock"
    /\ marketCall.returned
    /\ balance[marketCall.player] = 0
    /\ stocks[marketCall.player][marketCall.corp] > 0

HeldOf(c, u) == stocks[u][c]
MajorityHolders(c) ==
    {u \in Range(players) : HeldOf(c, u) > 0 /\ \A v \in Range(players) : HeldOf(c, v) <= HeldOf(c, u)}
MinorityHolders(c) ==
    LET others == {u \in Range(players) : HeldOf(c, u) > 0} \ MajorityHolders(c)
    IN {u \in others : \A v \in others : HeldOf(c, v) <= HeldOf(c, u)}

(* C14: distributeBonuses(C): when the majority group has more than one    *)
(* player or the minority group is empty, each majority player receives    *)
(* floor((majorityBonus + minorityBonus) / #majority) and nobody else      *)
(* receives anything; otherwise the sole majority player receives          *)
(* majorityBonus and each minority player floor(minorityBonus / #minority).*)
C14_DistributeBonuses ==
    [][DirectCall("distributeBonuses") =>
        LET c == marketCall'.corp
            majority == MajorityHolders(c)
            minority == MinorityHolders(c)
            majorityBonus == majorityPrice(Game, c)
            minorityBonus == minorityPrice(Game, c)
            received(u) == balance'[u] - balance[u]
        IN IF Cardinality(majority) > 1 \/ minority = {}
           THEN \A u \in Range(players) :
                   received(u) =
                       IF u \in majority
                       THEN (majorityBonus + minorityBonus) \div Cardinality(majority)
                       ELSE 0
           ELSE \A u \in Range(players) :
                   received(u) =
                       IF u \in majority THEN majorityBonus
                       ELSE IF u \in minority
                            THEN minorityBonus \div Cardinality(minority)
                            ELSE 0]_vars

(* Bonuses were paid to one majority holder and three minority holders     *)
(* whose shares of the minority bonus are not a whole number.              *)
C14_MinorityBonusRoundedDown ==
    /\ marketCall.fn = "distributeBonuses"
    /\ Cardinality(MajorityHolders(marketCall.corp)) = 1
    /\ Cardinality(MinorityHolders(marketCall.corp)) = 3
    /\ minorityPrice(Game, marketCall.corp) % 3 # 0
    /\ \A u \in MinorityHolders(marketCall.corp) :
           balance[u] = minorityPrice(Game, marketCall.corp) \div 3

LobbyRequest(route) == lobbyReply'.route = route /\ requests' = requests + 1

(* C15: the number of non-expired lobbies never exceeds MAX_LOBBIES;       *)
(* creating a lobby while that many non-expired lobbies exist fails with   *)
(* the capacity error and creates nothing.                                 *)
C15_LobbyCapacity ==
    [][/\ countActiveLobbies' <= MAX_LOBBIES
       /\ LobbyRequest("host") /\ countActiveLobbies >= MAX_LOBBIES
            => /\ lobbyReply'.status \in {400, 503}
               /\ lobbies' = lobbies]_vars

(* The third host was refused while two lobbies were waiting. *)
C15_HostRefusedAtCapacity ==
    /\ lobbyReply.route = "host"
    /\ lobbyReply.status = 503
    /\ countActiveLobbies = MAX_LOBBIES

(* C16: the number of games not marked finished never exceeds              *)
(* MAX_ACTIVE_GAMES; attaching a game while that many unfinished games     *)
(* exist fails with the capacity error and attaches nothing.               *)
C16_GameCapacity ==
    [][/\ countActiveGames' <= MAX_ACTIVE_GAMES
       /\ (LobbyRequest("start") \/ LobbyRequest("load") \/ LobbyRequest("test"))
            /\ countActiveGames >= MAX_ACTIVE_GAMES
            => /\ lobbyReply'.status \notin {200, 201}
               /\ lobbies' = lobbies
               /\ \A id \in LobbyIds :
                      /\ games'[id].exists = games[id].exists
                      /\ games'[id].isFinished = games[id].isFinished]_vars

(* The host of a second lobby was refused a game while the first lobby's   *)
(* game was running.                                                       *)
C16_StartRefusedAtCapacity ==
    /\ lobbyReply.route = "start"
    /\ lobbyReply.status = 503
    /\ ~games[lobbyReply.lobbyId].exists
    /\ countActiveGames = MAX_ACTIVE_GAMES

(* C17: the usernames in a lobby are pairwise distinct: a join whose       *)
(* username, as it would be stored, equals that of a player already in the *)
(* lobby is rejected and adds nobody.                                      *)
C17_UsernamesDistinct ==
    \A id \in LobbyIds :
        \A i, j \in 1 .. Len(lobbies[id].players) :
            i # j => lobbies[id].players[i] # lobbies[id].players[j]

(* C18: the number of players in a lobby never exceeds the lobby's upper   *)
(* limit; a join to a full lobby is rejected.                              *)
C18_LobbySize ==
    [][/\ \A id \in LobbyIds : Len(lobbies'[id].players) <= LobbyUpperLimit
       /\ LobbyRequest("join") /\ Len(lobbies[lobbyReply'.lobbyId].players) = LobbyUpperLimit
            => /\ lobbyReply'.status = 401
               /\ lobbies' = lobbies]_vars

(* A join was refused by a lobby holding as many players as it may. *)
C18_JoinRefusedWhenFull ==
    /\ lobbyReply.route = "join"
    /\ lobbyReply.status = 401
    /\ Len(lobbies[lobbyReply.lobbyId].players) = LobbyUpperLimit

(* C19: a pass of the cleanup task deletes a lobby record if and only if   *)
(* the lobby is empty, or is not expired and idle for longer than          *)
(* LOBBY_IDLE_TIMEOUT, or has a game marked finished for longer than       *)
(* FINISHED_GAME_RETENTION, or is expired with a game idle for longer than *)
(* GAME_IDLE_TIMEOUT; every other record is left as it was.                *)
C19_CleanupPass ==
    [][lobbyReply'.route = "cleanup" /\ now' = now =>
        \A id \in LobbyIds :
            LET lobby == lobbies[id]
                game == games[id]
                reap ==
                    \/ Len(lobby.players) = 0
                    \/ ~lobby.hasExpired /\ now - lobby.lastActivityAt > LOBBY_IDLE_TIMEOUT
                    \/ game.exists /\ game.isFinished
                         /\ now - game.finishedAt > FINISHED_GAME_RETENTION
                    \/ lobby.hasExpired /\ game.exists
                         /\ now - game.lastActivityAt > GAME_IDLE_TIMEOUT
            IN IF lobby.exists /\ reap
               THEN ~lobbies'[id].exists /\ ~games'[id].exists
               ELSE lobbies'[id] = lobby /\ games'[id] = game]_vars

(* A pass deleted an idle waiting lobby and kept a lobby whose game was    *)
(* idle for no longer than GAME_IDLE_TIMEOUT.                              *)
C19_ReapedOneKeptOne ==
    /\ lobbyReply.route = "cleanup"
    /\ lobbyReply.reaped # {}
    /\ \E id \in LobbyIds :
           /\ lobbies[id].exists
           /\ lobbies[id].hasExpired
           /\ games[id].exists
           /\ now - lobbies[id].lastActivityAt > LOBBY_IDLE_TIMEOUT

(* C20: every request that successfully changes a game's state (start,     *)
(* load, tile, establish, buy-stocks, end-turn, end-merge and each merger  *)
(* action) causes a gameUpdate event to be emitted to the room game:{id}   *)
(* of that game and to no other.                                           *)
C20_ChangeEmitsGameUpdate ==
    [][Answered /\ lastRequest'.status \in {200, 201} /\ gameVars' # gameVars
         => gameUpdates' = {gameRoom(GameLobbyId)}]_vars

(* The place of request r in the order the mutations were applied. *)
AppliedAt(r) == CHOOSE i \in 1 .. Len(fanout.applied) : fanout.applied[i] = r

C22_StartOnlyByHostWithEnoughPlayers ==
    [][\A lobbyId \in LobbyIds, username \in RawNames :
           StartLobbyGame(lobbyId, username) =>
               LET lobby == lobbies[lobbyId]
                   byHost == username = lobby.players[1]
                   enough == Len(lobby.players) >= LobbyLowerLimit
                   refused == /\ games'[lobbyId].exists = games[lobbyId].exists
                              /\ games'[lobbyId].isFinished = games[lobbyId].isFinished
                              /\ lobbies' = lobbies
               IN /\ lobbyReply'.status = 200 => byHost /\ enough
                  /\ lobbyReply'.status # 200 => refused
                  /\ ~byHost => lobbyReply'.status = 403
                  /\ byHost /\ ~enough => lobbyReply'.status = 400]_vars

(* A member who is not the host was refused with 403 in a lobby that had   *)
(* enough players, and the lobby has no game and is not expired.           *)
C22_NonHostRefused ==
    /\ lobbyReply.route = "start"
    /\ lobbyReply.status = 403
    /\ Len(lobbies[lobbyReply.lobbyId].players) >= LobbyLowerLimit
    /\ ~games[lobbyReply.lobbyId].exists
    /\ ~lobbies[lobbyReply.lobbyId].hasExpired

C24_LoadRestoresSavedGame ==
    [][LoadGameRequest =>
           \A u \in Users : status(Game', u) = status(Game, u)]_vars

(* C25: game-end is terminal: once the state is game-end, no later request *)
(* (end-turn, buy-stocks, tile, establish, end-merge or a merger action)   *)
(* changes the game state, a balance or a share holding.                   *)
C25_GameEndIsTerminal ==
    [][state = "game-end" =>
           /\ state' = "game-end"
           /\ balance' = balance
           /\ stocks' = stocks]_vars

(* C26: every /game/{id} route, those that load or replace a game          *)
(* included, changes that lobby's game only for a requester whose username *)
(* cookie names a member of the lobby: a request with another username     *)
(* changes neither the registry nor the game.                              *)
C26_OnlyMembersChangeTheGame ==
    [][\A lobbyId \in LobbyIds, username \in RawNames :
           (/\ ~isMember(lobbyId, username)
            /\ \/ StartLobbyGame(lobbyId, username)
               \/ LoadLobbyGame(lobbyId, username)
               \/ ConfigureLobbyGame(lobbyId, username)
               \/ GameResult(lobbyId, username))
           => UNCHANGED <<lobbies, games>>]_vars

(* C27: during one merger of a defunct corporation its majority and        *)
(* minority bonuses are paid once, at the start of the merger; no later    *)
(* step (a deal, the end of a merger turn, the end of the merger) pays     *)
(* them again: the end of a merger turn leaves every balance as it is, and *)
(* a deal changes the balance of the dealing player only.                  *)
C27_BonusesPaidOnce ==
    [][/\ \A u \in Users : MergerEndTurnRequest(u) => balance' = balance
       /\ \A u \in Users, sell \in 0 .. MaxDeal, trade \in 0 .. MaxDeal :
              MergerDealRequest(u, sell, trade) =>
                  \A v \in Users \ {u} : balance'[v] = balance[v]]_vars

(* The end-of-game condition, said with the sizes of the corporations. *)
GameIsOver ==
    LET active == {c \in Corps : corporations[c].isActive}
    IN /\ active # {}
       /\ \/ \E c \in active : corporations[c].size >= GameEndSize
          \/ \A c \in active : corporations[c].isSafe

FinalEarnings(v) ==
    SumOver({c \in Corps : corporations[c].isActive},
            [c \in Corps |-> bonusOf(Game, c, v) + stocks[v][c] * corpPrice(Game, c)])

(* C29: after liquidate(C) every player holds 0 shares of C, each player   *)
(* who held n > 0 shares has been credited n times the current price of C, *)
(* and C is inactive; in particular, after game-end every corporation that *)
(* was active at game-end is inactive.                                     *)
C29_LiquidatedAndInactive ==
    [][\A u \in Users :
           (EndTurnRequest(u) /\ state' = "game-end") =>
               /\ \A v \in Users : balance'[v] = balance[v] + FinalEarnings(v)
               /\ \A c \in Corps :
                      corporations[c].isActive =>
                          /\ \A v \in Users : stocks'[v][c] = 0
                          /\ ~corporations'[c].isActive]_vars

(* C30: the final result compiled at game-end lists the players sorted by  *)
(* balance, descending, the balances being those after all the bonuses and *)
(* liquidations of the end of the game.                                    *)
C30_ResultSortedByBalance ==
    [][\A u \in Users :
           (EndTurnRequest(u) /\ state' = "game-end") =>
               /\ \A i \in DOMAIN result' : result'[i].balance = balance'[result'[i].name]
               /\ {result'[i].name : i \in DOMAIN result'} = Range(players)
               /\ \A i, j \in DOMAIN result' :
                      i < j => result'[i].balance >= result'[j].balance]_vars

(* The place of player u in the playing order. *)
PlaceOf(u) == CHOOSE i \in DOMAIN players : players[i] = u

(* C31: after an end-turn that does not end the game, the player taking    *)
(* the turn is the one immediately after the previous current player in    *)
(* the fixed playing order (the first player after the last one), the      *)
(* previous current player is no longer taking the turn, and the state is  *)
(* place-tile.                                                             *)
C31_EndTurnPassesToNextPlayer ==
    [][\A u \in Users :
           (EndTurnRequest(u) /\ state' # "game-end") =>
               LET next == players[(PlaceOf(u) % Len(players)) + 1]
               IN /\ players' = players
                  /\ currentPlayer(Game') = next
                  /\ isTakingTurn'[next]
                  /\ ~isTakingTurn'[u]
                  /\ state' = "place-tile"]_vars

(* Two turns were ended: the turn has passed from the last player of the   *)
(* playing order to the first.                                             *)
C31_TurnWrapped ==
    /\ lastRequest = Request("end-turn", TRUE, 200)
    /\ state = "place-tile"
    /\ turnCount = Len(players)
    /\ isTakingTurn[players[1]]
    /\ ~isTakingTurn[players[Len(players)]]

(* C32: an establish request naming a corporation that is already active   *)
(* is rejected and changes nothing: the size, safe flag and remaining      *)
(* shares of the corporation, the ownership of the tiles on the board, the *)
(* shares of the player and the game state stay as they were.              *)
C32_EstablishActiveRejected ==
    [][\A u \in Users, name \in Corps :
           (EstablishRequest(u, name) /\ corporations[name].isActive) =>
               /\ lastRequest'.status # 200
               /\ corporations' = corporations
               /\ placedTiles' = placedTiles
               /\ stocks' = stocks
               /\ state' = state]_vars

(* C33: in every reachable game state the remaining share count of every   *)
(* corporation is between 0 and the initial count (25) inclusive: the      *)
(* founding share is granted only if a share remains, and selling or       *)
(* trading never pushes a corporation above the initial count.             *)
C33_RemainingSharesInRange ==
    \A c \in Corps : corporations[c].stocks \in 0 .. InitialStocks

(* C34: every merger that starts, whichever way it is started (after a     *)
(* placement, or by a resolve-conflict, resolve-acquirer or confirm-       *)
(* defunct request), has an acquirer and a defunct that are two distinct   *)
(* active corporations of the connected component of the tile just placed, *)
(* the acquirer being at least as large as the defunct.                    *)
C34_MergerOfTwoConnectedCorporations ==
    [][(merger' # merger /\ merger'.exists /\ merger'.turns = 0) =>
           LET acquirer == merger'.acquirer
               defunct == merger'.defunct
           IN /\ acquirer # defunct
              /\ corporations'[acquirer].isActive
              /\ corporations'[defunct].isActive
              /\ {acquirer, defunct} \subseteq groupKeys(placedTiles', connectedTiles')
              /\ corporations'[acquirer].size >= corporations'[defunct].size]_vars

(* The number of tiles on the board that belong to corporation c. *)
TilesOf(c) ==
    SumOver(Positions,
            [p \in Positions |->
                Cardinality({i \in DOMAIN placedTiles[p] : placedTiles[p][i] = c})])

(* C35: whenever the game is in place-tile, buy-stocks or tile-placed      *)
(* (outside an unfinished merger), the size of every active corporation is *)
(* the number of tiles on the board that belong to it; this holds after an *)
(* establish, after growth and after a merger has absorbed the defunct's   *)
(* tiles and the newly connected incorporated tiles.                       *)
C35_SizeIsTileCount ==
    state \in {"place-tile", "buy-stocks", "tile-placed"} =>
        \A c \in Corps : corporations[c].isActive => corporations[c].size = TilesOf(c)

(* C36: a lobby's game starts at most once: after a game has been attached *)
(* to a lobby and the lobby has expired, a further start request for that  *)
(* lobby is not accepted and does not replace or reset the game.           *)
C36_GameStartsOnce ==
    [][\A lobbyId \in LobbyIds, username \in RawNames :
           (/\ StartLobbyGame(lobbyId, username)
            /\ games[lobbyId].exists
            /\ lobbies[lobbyId].hasExpired) =>
               /\ lobbyReply'.status # 200
               /\ games'[lobbyId].isFinished = games[lobbyId].isFinished
               /\ games'[lobbyId].finishedAt = games[lobbyId].finishedAt]_vars

(* C37: once a lobby has expired its player list never changes again: a    *)
(* join request and a leave request for it are both rejected, and no step  *)
(* that keeps the lobby changes its players.                               *)
C37_ExpiredLobbyPlayersFixed ==
    [][\A lobbyId \in LobbyIds :
          (lobbies[lobbyId].exists /\ lobbies[lobbyId].hasExpired) =>
              /\ lobbies'[lobbyId].exists => lobbies'[lobbyId].players = lobbies[lobbyId].players
              /\ \A username \in RawNames :
                     (JoinLobby(lobbyId, username) \/ LeaveLobby(lobbyId, username)) =>
                         lobbyReply'.status \in {400, 401}]_vars

---------------------------------------------------------------------------
(* One lobby followed from its creation to its deletion together with the  *)
(* game played in it: the lobby routes, the game routes behind             *)
(* authorizeLobbyMember and trackGameActivity, the clock and the cleanup   *)
(* task.                                                                   *)
MaxSessionRequests == 5

WithinSessionBound == requests < MaxSessionRequests

SessionUnchanged == UNCHANGED <<voiceVars, marketCall, lobbies, now, lobbyReply, fanout, statusRead>>

(* POST /game/:lobbyId/start answered 200: startGame builds the game from  *)
(* the players of the lobby, attaches it, starts it and expires the lobby. *)
SessionStart(username, shuffleFn) ==
    /\ isMember(GameLobbyId, username)
    /\ username = lobbies[GameLobbyId].players[1]
    /\ isPossibleToStartGame(lobbies[GameLobbyId])
    /\ ~gamesAtCapacity
    /\ lobbies[GameLobbyId].players = Usernames
    /\ StartGame(shuffleFn)
    /\ games' = setGame(GameLobbyId)
    /\ lobbies' = [lobbies EXCEPT ![GameLobbyId].hasExpired = TRUE]
    /\ lobbyReply' = [route |-> "start", lobbyId |-> GameLobbyId, status |-> 200, reaped |-> {}]
    /\ UNCHANGED <<voiceVars, marketCall, now, fanout, statusRead>>

(* POST /game/:lobbyId/tile of a member, the lobby having a game *)
SessionPlaceTile(u, position) ==
    /\ isMember(GameLobbyId, u)
    /\ games[GameLobbyId].exists
    /\ games' = updateGameActivity(GameLobbyId)
    /\ PlaceTileRequest(u, position)
    /\ SessionUnchanged

(* POST /game/:lobbyId/end-turn of a member, the lobby having a game *)
SessionEndTurn(u) ==
    /\ isMember(GameLobbyId, u)
    /\ games[GameLobbyId].exists
    /\ games' = updateGameActivity(GameLobbyId)
    /\ EndTurnRequest(u)
    /\ SessionUnchanged

SessionNext ==
    \/ \E username \in Users : WithinSessionBound /\ HostLobby(username)
    \/ \E username \in Users : WithinSessionBound /\ JoinLobby(GameLobbyId, username)
    \/ \E username \in Users, fn \in Shuffles : SessionStart(username, fn)
    \/ \E u \in Users, position \in Positions : WithinSessionBound /\ SessionPlaceTile(u, position)
    \/ \E u \in Users : WithinSessionBound /\ SessionEndTurn(u)
    \/ \E username \in Users : WithinSessionBound /\ GameResult(GameLobbyId, username)
    \/ Tick
    \/ Cleanup

SessionSpec == Init /\ [][SessionNext]_vars

(* C38: a game is marked finished only when its state is game-end, and the *)
(* cleanup task never deletes a lobby whose game is still in progress and  *)
(* was active within GAME_IDLE_TIMEOUT.                                    *)
C38_FinishedOnlyAtGameEnd ==
    [][/\ (games'[GameLobbyId].isFinished /\ ~games[GameLobbyId].isFinished) =>
              state' = "game-end"
       /\ (Cleanup /\ GameLobbyId \in lobbyReply'.reaped /\ games[GameLobbyId].exists
                   /\ state # "game-end") =>
              now - games[GameLobbyId].lastActivityAt > GAME_IDLE_TIMEOUT]_vars

(* The four conditions of agreement between a table of rooms and a table   *)
(* telling the room of each socket ("" for none).                          *)
TablesAgree(rooms, roomOf) ==
    /\ \A socket \in Sockets : Cardinality({r \in DOMAIN rooms : socket \in rooms[r]}) <= 1
    /\ \A socket \in Sockets, r \in VoiceRoomIds :
           roomOf[socket] = r <=> socket \in membersOf(rooms, r)
    /\ \A socket \in Sockets \ voiceConnected : \A r \in DOMAIN rooms : socket \notin rooms[r]
    /\ \A r \in DOMAIN rooms : rooms[r] # {}

(* C39: after any sequence of voice join, leave and disconnect events the  *)
(* voice tables agree, in VoiceHandler and in SocketManager: a socket is   *)
(* in at most one room, it is recorded in room R exactly when the member   *)
(* set of R contains it, no disconnected socket is in a room and no empty  *)
(* room is kept.                                                           *)
C39_VoiceTablesAgree ==
    /\ TablesAgree(voiceRooms, voiceUsers)
    /\ TablesAgree(voiceManager.voiceRooms,
                   [socket \in Sockets |-> IF voiceManager.clients[socket].inVoice
                                           THEN voiceManager.clients[socket].lobbyId ELSE ""])

---------------------------------------------------------------------------
(* The cleanup task under fairness.  setInterval runs #cleanup again and   *)
(* again and the clock advances; requests arrive during the first MaxTime  *)
(* units of time and the clock is followed until every timeout has passed  *)
(* since then.                                                             *)
MaxQuietRequests == 4

QuietTime == MaxTime + LOBBY_IDLE_TIMEOUT + FINISHED_GAME_RETENTION + GAME_IDLE_TIMEOUT

RequestsArrive == requests < MaxQuietRequests /\ now <= MaxTime

(* Time passes, also after the last request. *)
QuietTick ==
    /\ now < QuietTime
    /\ now' = now + 1
    /\ UNCHANGED <<gameVars, lastRequest, requests, voiceVars, marketCall,
                   lobbies, games, lobbyReply, gameUpdates, fanout, statusRead>>

ReaperNext ==
    \/ \E username \in RawNames : RequestsArrive /\ HostLobby(username)
    \/ \E lobbyId \in LobbyIds, username \in RawNames :
           RequestsArrive /\ JoinLobby(lobbyId, username)
    \/ \E lobbyId \in LobbyIds, username \in RawNames :
           RequestsArrive /\ LeaveLobby(lobbyId, username)
    \/ \E lobbyId \in LobbyIds, username \in RawNames :
           RequestsArrive /\ StartLobbyGame(lobbyId, username)
    \/ \E lobbyId \in LobbyIds, username \in RawNames :
           RequestsArrive /\ LoadLobbyGame(lobbyId, username)
    \/ \E lobbyId \in LobbyIds, username \in RawNames :
           RequestsArrive /\ ConfigureLobbyGame(lobbyId, username)
    \/ \E lobbyId \in LobbyIds, username \in RawNames :
           RequestsArrive /\ GameResult(lobbyId, username)
    \/ QuietTick
    \/ Cleanup

ReaperSpec == Init /\ [][ReaperNext]_vars /\ WF_vars(QuietTick) /\ WF_vars(Cleanup)

(* C40: when the cleanup task keeps running and no request touches a lobby *)
(* any more, the lobby is eventually deleted together with its game and    *)
(* the metadata of the game, whether it was waiting, started or finished.  *)
C40_IdleLobbyEventuallyDeleted ==
    \A lobbyId \in LobbyIds :
        lobbies[lobbyId].exists ~> (~lobbies[lobbyId].exists /\ ~games[lobbyId].exists)

(* The cleanup task has deleted a lobby after the last request. *)
C40_ReapedWhenQuiet ==
    /\ lobbyReply.route = "cleanup"
    /\ lobbyReply.reaped # {}
    /\ now > MaxTime
    /\ \A lobbyId \in lobbyReply.reaped : ~lobbies[lobbyId].exists /\ ~games[lobbyId].exists

====
